---------------------------- MODULE Spec2Model ----------------------------
(***************************************************************************)
(* A model of the SoftLayer libcloud driver                                *)
(* (storm/drivers/softlayer/softlayerDriver.py).                           *)
(*                                                                         *)
(* The driver is single threaded.  Its only stateful control flow is the   *)
(* provisioning wait loop of ex_create_nodes; the provider is the          *)
(* environment: whenever the driver asks for an instance the provider      *)
(* answers with whatever status the instance has at that moment.           *)
(***************************************************************************)
EXTENDS Integers, Sequences, FiniteSets, TLC

(***************************************************************************)
(* Bounds of the model.                                                    *)
(***************************************************************************)
\* largest number of configurations handed to one ex_create_nodes call
MaxConfigs == 2
\* largest timeout (in seconds, one polling round each) a caller passes
MaxTimeout == 2
\* largest number of VLANs the provider lists
MaxVlans == 2
\* largest number of subnets of one VLAN
MaxSubnets == 2
\* largest number of member nodes of a cluster that is destroyed
MaxMembers == 3

(***************************************************************************)
(* Values.                                                                 *)
(***************************************************************************)
\* Python's None
None == "None"

\* host names a caller may ask for
Names == {"a", "b"}

\* the domain create_node and ex_create_cluster put into every configuration
Domain == "sl-cloud.com"

\* the provider derives the fully qualified domain name of a guest
Fqdn(hostname, domain) == hostname \o "." \o domain

\* activeTransaction of a guest as SoftLayer.utils.lookup sees it: id 0 and
\* friendlyName None stand for a lookup that returns None (no transaction)
NoTransaction == [id |-> 0, friendlyName |-> None]

ActiveTransactions ==
    { NoTransaction,
      [id |-> 1, friendlyName |-> "Assign Host"],
      [id |-> 2, friendlyName |-> "Cloud Setup"] }

\* what vs.get_instance can report for a guest at some moment
InstanceStatus ==
    [provisionDate : {None, "2016-05-01"}, activeTransaction : ActiveTransactions]

\* a configuration without tags: config.pop("tags", None) gives None
NoTags == <<>>

\* a configuration without the public_vlan or private_vlan option
NoVlan == 0

\* nothing returned or raised yet
NoReturn == [kind |-> "pending", value |-> None]

\* no log line
NoLog == [level |-> None, fqdn |-> None, text |-> None]

\* SoftLayerCluster.destroy has not logged its outcome
NoReport == [level |-> None, names |-> <<>>]

\* the driver instances of a process
Drivers == {"driver1", "driver2"}

\* no list operation has been called
NoListing == [call |-> None, value |-> <<>>]

VARIABLES
    pc,              \* where the driver is in the running call
    configs,         \* ex_create_nodes: the configurations handed in
    tags,            \* ex_create_nodes: the tags popped from the configurations
    timeout,         \* ex_create_nodes: the remaining budget
    instanceInfos,   \* ex_create_nodes: what createObjects returned
    idx,             \* position of the running for loop (1-based)
    readyInstances,  \* ex_create_nodes: set of fully qualified domain names
    transactions,    \* ex_create_nodes: dict, domain name -> last logged label
    nodes,           \* ex_create_nodes: the list that is returned
    logged,          \* the log line written by the last step (NoLog: none)
    guests,          \* provider: guest id -> [hostname, domain, fqdn, tags]
    seen,            \* the status the provider had for the instance last visited
    timeout0,        \* history: the timeout the call was started with
    rounds,          \* history: polling rounds (for loops over instanceInfos) started
    wasReady,        \* history: ids whose status was ready when the loop visited them
    lastLabel,       \* history: guest id -> the last non-null label polled for it
    calls,           \* history: number of provider requests issued by the call
    vlans,           \* provider: the list networkManager.list_vlans draws from
    answers,         \* history: (includePrivate, includePublic) -> result of ex_get_vlans
    cluster,         \* SoftLayerCluster: [name, nodes], nodes a dict node name -> node
    items,           \* SoftLayerCluster.destroy: the order self.nodes.items() yields
    remainingNodes,  \* SoftLayerCluster.destroy: names of the nodes not destroyed
    report,          \* SoftLayerCluster.destroy: the log line it ends with
    attempts,        \* history: the destroy_node calls made, [name, id, result]
    caller,          \* the public operation that is running
    kwargs,          \* create_node, ex_create_cluster: the keyword arguments, a dict
    ret,             \* what the public operation returned or raised
    driver,          \* the driver instance (self) that serves the calls
    servers,         \* provider: hardware server id -> [hostname, domain, fqdn, tags]
    instanceDict,    \* the provider record handed to a translator
    nodeMade,        \* the node the translator made of it
    listed,          \* the list operation last called and what it returned
    earlier          \* history: what the list operation called before it returned

loopVars == <<configs, tags, timeout, instanceInfos, idx, readyInstances,
              transactions, nodes>>
histVars == <<seen, timeout0, rounds, wasReady, lastLabel, calls>>
vlanVars == <<vlans, answers>>
clusterVars == <<cluster, items, remainingNodes, report, attempts>>
callVars == <<caller, kwargs, ret>>
listVars == <<driver, servers, instanceDict, nodeMade, listed, earlier>>
vars == <<pc, loopVars, logged, guests, histVars, vlanVars, clusterVars, callVars, listVars>>

NoVisit == [id |-> 0, status |-> [provisionDate |-> None, activeTransaction |-> NoTransaction],
            polled |-> FALSE]

\* dict.get(key, None)
Get(dict, key) == IF key \in DOMAIN dict THEN dict[key] ELSE None

\* dict[key] = value
Put(dict, key, value) ==
    [k \in DOMAIN dict \cup {key} |-> IF k = key THEN value ELSE dict[k]]

\* the empty dict
EmptyDict == [k \in {} |-> None]

\* Python truthiness of a string or None: None and the empty string are false
Truthy(v) == v # None /\ v # ""

\* Python truthiness of an id: None (modelled as 0) and 0 are false
TruthyId(v) == v # 0

(***************************************************************************)
(* ex_create_nodes                                                         *)
(***************************************************************************)
\* a configuration as ex_create_nodes receives it
Configs == [hostname : Names, domain : {Domain}, tags : {NoTags},
            public_vlan : {NoVlan}, private_vlan : {NoVlan}]

ConfigLists == UNION { [1..n -> Configs] : n \in 0..MaxConfigs }

Timeouts == 0..MaxTimeout

\* the ids the provider gives to a batch of n new guests
NewIds(n) ==
    LET base == IF DOMAIN guests = {} THEN 0
                ELSE CHOOSE m \in DOMAIN guests : \A k \in DOMAIN guests : k <= m
    IN  [i \in 1..n |-> base + i]

\* vs.guest.createObjects(objects): one guest per configuration, in order
CreateObjects(cfgs) ==
    LET ids == NewIds(Len(cfgs))
    IN  [i \in 1..Len(cfgs) |->
            [id |-> ids[i], fullyQualifiedDomainName |-> Fqdn(cfgs[i].hostname, cfgs[i].domain)]]

\* entering ex_create_nodes(configs, timeout): tags = [config.pop("tags", None) ...]
EnterCreateNodes(cfgs, t) ==
    /\ configs' = [i \in 1..Len(cfgs) |->
                      [hostname |-> cfgs[i].hostname, domain |-> cfgs[i].domain,
                       public_vlan |-> cfgs[i].public_vlan, private_vlan |-> cfgs[i].private_vlan]]
    /\ tags' = [i \in 1..Len(cfgs) |-> cfgs[i].tags]
    /\ timeout' = t
    /\ timeout0' = t
    /\ pc' = "createObjects"

\* the call: ex_create_nodes(configs, timeout) by a user of the driver
ex_create_nodes(cfgs, t) ==
    /\ pc = "idle"
    /\ EnterCreateNodes(cfgs, t)
    /\ caller' = "ex_create_nodes"
    /\ UNCHANGED <<instanceInfos, idx, readyInstances, transactions, nodes,
                   logged, guests, seen, rounds, wasReady, lastLabel, calls,
                   vlanVars, listVars, clusterVars, kwargs, ret>>

\* instanceInfos = vs.guest.createObjects(objects)
createObjects ==
    /\ UNCHANGED <<vlanVars, listVars, clusterVars, callVars>>
    /\ pc = "createObjects"
    /\ LET infos == CreateObjects(configs)
       IN  /\ instanceInfos' = infos
           /\ guests' = [g \in DOMAIN guests \cup {infos[i].id : i \in 1..Len(infos)} |->
                            IF g \in DOMAIN guests THEN guests[g]
                            ELSE LET i == CHOOSE j \in 1..Len(infos) : infos[j].id = g
                                 IN  [hostname |-> configs[i].hostname,
                                      domain |-> configs[i].domain,
                                      fqdn |-> infos[i].fullyQualifiedDomainName,
                                      tags |-> NoTags]]
    /\ calls' = calls + 1
    /\ idx' = 1
    /\ pc' = "setTags"
    /\ logged' = NoLog
    /\ UNCHANGED <<configs, tags, timeout, readyInstances, transactions, nodes,
                   seen, timeout0, rounds, wasReady, lastLabel>>

\* a bug that would set every tag on the first instance of the batch
TagTargetMutant(i) == instanceInfos[1].id

\* zip(instanceInfos, tags): the i-th tag goes with the i-th instance,
\* vs.guest.setTags(tag, id=instance["id"])
TagTarget(i) == instanceInfos[i].id

\* for instance, tag in zip(instanceInfos, tags): if tag: vs.guest.setTags(...)
setTags ==
    /\ UNCHANGED <<vlanVars, listVars, clusterVars, callVars>>
    /\ pc = "setTags"
    /\ IF idx <= Len(instanceInfos)
       THEN /\ IF tags[idx] # NoTags
               THEN /\ guests' = [guests EXCEPT ![TagTarget(idx)].tags = tags[idx]]
                    /\ calls' = calls + 1
               ELSE UNCHANGED <<guests, calls>>
            /\ idx' = idx + 1
            /\ UNCHANGED <<pc, nodes, transactions, readyInstances>>
       ELSE \* nodes = [] ; transactions = {} ; readyInstances = set()
            /\ nodes' = <<>>
            /\ transactions' = EmptyDict
            /\ readyInstances' = {}
            /\ pc' = "while"
            /\ UNCHANGED <<guests, calls, idx>>
    /\ logged' = NoLog
    /\ UNCHANGED <<configs, tags, timeout, instanceInfos, seen, timeout0, rounds, wasReady,
                   lastLabel>>

\* while timeout > 0:
whileTest ==
    /\ UNCHANGED <<vlanVars, listVars, clusterVars, callVars>>
    /\ pc = "while"
    /\ IF timeout > 0
       THEN /\ pc' = "for"
            /\ idx' = 1
            /\ rounds' = rounds + 1
       ELSE /\ pc' = "after"
            /\ UNCHANGED <<idx, rounds>>
    /\ logged' = NoLog
    /\ UNCHANGED <<configs, tags, timeout, instanceInfos, readyInstances, transactions,
                   nodes, guests, seen, timeout0, wasReady, lastLabel, calls>>

\* all([instance.get('provisionDate'), not activeTransactionId])
InstanceReadyMutant(instance) == Truthy(instance.provisionDate)
InstanceReady(instance) ==
    Truthy(instance.provisionDate) /\ ~TruthyId(instance.activeTransaction.id)

\* activeTransactionName is not None and activeTransactionName != transactions.get(fqdn, None)
TransactionChanged(name, recorded) == name # None /\ name # recorded

\* one pass of the body of "for instanceInfo in instanceInfos"; s is the status
\* the provider has for the instance at that moment
pollInstance(s) ==
    /\ UNCHANGED <<vlanVars, listVars, clusterVars, callVars>>
    /\ pc = "for"
    /\ idx <= Len(instanceInfos)
    /\ LET instanceInfo == instanceInfos[idx]
           fqdn == instanceInfo.fullyQualifiedDomainName
           activeTransactionName == s.activeTransaction.friendlyName
       IN  /\ IF fqdn \notin readyInstances
              THEN \* instance = vs.get_instance(instanceInfo["id"])
                   /\ calls' = calls + 1
                   /\ seen' = [id |-> instanceInfo.id, status |-> s, polled |-> TRUE]
                   /\ lastLabel' = IF activeTransactionName # None
                                   THEN Put(lastLabel, instanceInfo.id, activeTransactionName)
                                   ELSE lastLabel
                   /\ IF TransactionChanged(activeTransactionName, Get(transactions, fqdn))
                      THEN /\ logged' = [level |-> "info", fqdn |-> fqdn, text |-> activeTransactionName]
                           /\ transactions' = Put(transactions, fqdn, activeTransactionName)
                      ELSE /\ logged' = NoLog
                           /\ UNCHANGED transactions
                   /\ IF InstanceReady(s)
                      THEN readyInstances' = readyInstances \cup {guests[instanceInfo.id].fqdn}
                      ELSE UNCHANGED readyInstances
              ELSE /\ seen' = [id |-> instanceInfo.id, status |-> s, polled |-> FALSE]
                   /\ logged' = NoLog
                   /\ UNCHANGED <<calls, transactions, readyInstances, lastLabel>>
           /\ wasReady' = IF s.provisionDate # None /\ s.activeTransaction = NoTransaction
                          THEN wasReady \cup {instanceInfo.id}
                          ELSE wasReady
    /\ idx' = idx + 1
    /\ UNCHANGED <<pc, configs, tags, timeout, instanceInfos, nodes, guests, timeout0, rounds>>

\* a bug that would count the instances whose name is marked ready
AllReadyMutant ==
    \A i \in 1..Len(instanceInfos) :
        instanceInfos[i].fullyQualifiedDomainName \in readyInstances

\* if len(readyInstances) == len(instanceInfos)
AllReady == Cardinality(readyInstances) = Len(instanceInfos)

\* after the for loop: break, or timeout -= 1 and sleep
roundEnd ==
    /\ UNCHANGED <<vlanVars, listVars, clusterVars, callVars>>
    /\ pc = "for"
    /\ idx > Len(instanceInfos)
    /\ IF AllReady
       THEN /\ pc' = "after"
            /\ UNCHANGED timeout
       ELSE /\ timeout' = timeout - 1
            /\ pc' = "while"
    /\ logged' = NoLog
    /\ UNCHANGED <<configs, tags, instanceInfos, idx, readyInstances, transactions,
                   nodes, guests, histVars>>

\* _virtual_to_node(instance): Node(instance["id"], instance["fullyQualifiedDomainName"], ...)
VirtualToNode(id) == [id |-> id, name |-> guests[id].fqdn]

\* a bug that would return the nodes of the instances marked ready on a timeout
ReturnOnTimeoutMutant ==
    LET marked == SelectSeq(instanceInfos,
                            LAMBDA info : info.fullyQualifiedDomainName \in readyInstances)
    IN  [k \in 1..Len(marked) |-> VirtualToNode(marked[k].id)]

\* "return nodes" of the timeout branch: nodes is still the list it was created as
ReturnOnTimeout == nodes

\* a bug that would cancel the instances of the batch on a timeout
GuestsOnTimeoutMutant ==
    LET submitted == { instanceInfos[i].id : i \in 1..Len(instanceInfos) }
    IN  [g \in DOMAIN guests \ submitted |-> guests[g]]

\* the timeout branch makes no request to the provider: it logs and returns,
\* the guests of the account stay as they are
GuestsOnTimeout == guests

\* if len(readyInstances) != len(instanceInfos): log and return nodes
afterLoop ==
    /\ UNCHANGED <<vlanVars, listVars, clusterVars, callVars>>
    /\ pc = "after"
    /\ IF ~AllReady
       THEN /\ logged' = [level |-> "info", fqdn |-> None, text |-> "timed out"]
            /\ nodes' = ReturnOnTimeout
            /\ guests' = GuestsOnTimeout
            /\ pc' = "return"
            /\ UNCHANGED idx
       ELSE /\ logged' = NoLog
            /\ pc' = "collect"
            /\ idx' = 1
            /\ UNCHANGED <<nodes, guests>>
    /\ UNCHANGED <<configs, tags, timeout, instanceInfos, readyInstances, transactions,
                   histVars>>

\* a bug that would read the first instance in every pass of the final loop
CollectedNodeMutant(i) == VirtualToNode(instanceInfos[1].id)

\* instance = vs.get_instance(instanceInfo['id'], **virtualkwargs) and its node
CollectedNode(i) == VirtualToNode(instanceInfos[i].id)

\* for instanceInfo in instanceInfos: nodes.append(self._virtual_to_node(vs.get_instance(id)))
collect ==
    /\ UNCHANGED <<vlanVars, listVars, clusterVars, callVars>>
    /\ pc = "collect"
    /\ IF idx <= Len(instanceInfos)
       THEN /\ nodes' = Append(nodes, CollectedNode(idx))
            /\ calls' = calls + 1
            /\ idx' = idx + 1
            /\ UNCHANGED pc
       ELSE /\ pc' = "return"
            /\ UNCHANGED <<nodes, calls, idx>>
    /\ logged' = NoLog
    /\ UNCHANGED <<configs, tags, timeout, instanceInfos, readyInstances, transactions,
                   guests, seen, timeout0, rounds, wasReady, lastLabel>>

InitDriver ==
    /\ pc = "idle"
    /\ configs = <<>>
    /\ tags = <<>>
    /\ timeout = 0
    /\ instanceInfos = <<>>
    /\ idx = 1
    /\ readyInstances = {}
    /\ transactions = EmptyDict
    /\ nodes = <<>>
    /\ logged = NoLog
    /\ seen = NoVisit
    /\ timeout0 = 0
    /\ rounds = 0
    /\ wasReady = {}
    /\ lastLabel = EmptyDict
    /\ calls = 0
    /\ answers = EmptyDict
    /\ remainingNodes = <<>>
    /\ report = NoReport
    /\ attempts = <<>>
    /\ caller = None
    /\ kwargs = EmptyDict
    /\ ret = NoReturn
    /\ instanceDict = EmptyDict
    /\ nodeMade = EmptyDict
    /\ listed = NoListing
    /\ earlier = NoListing

\* no cluster object
NoCluster == [name |-> None, nodes |-> EmptyDict]

Init ==
    /\ InitDriver
    /\ driver = "driver1"
    /\ servers = EmptyDict
    /\ vlans = <<>>
    /\ guests = EmptyDict
    /\ cluster = NoCluster
    /\ items = <<>>

Next ==
    \/ \E cfgs \in ConfigLists, t \in Timeouts : ex_create_nodes(cfgs, t)
    \/ createObjects
    \/ setTags
    \/ whileTest
    \/ \E s \in InstanceStatus : pollInstance(s)
    \/ roundEnd
    \/ afterLoop
    \/ collect

Spec == Init /\ [][Next]_vars

(***************************************************************************)
(* ex_get_vlans                                                            *)
(***************************************************************************)
\* network identifiers, as sequences of characters
SubnetIdentifiers ==
    { <<"1", "0", ".", "4">>, <<"1", "0", "0", ".", "4">> }

\* the datacenters of the account
Datacenters == {"dal05"}

SubnetLists == UNION { [1..n -> [networkIdentifier : SubnetIdentifiers]] : n \in 0..MaxSubnets }

\* a VLAN record without the virtualGuestCount key
Absent == -1

\* the VLAN lists the provider may hold: the id of a VLAN is unique
VlanLists ==
    UNION { { [i \in 1..n |-> [id |-> i, datacenter |-> d[i], subnets |-> sn[i],
                               virtualGuestCount |-> Absent]] :
                 d \in [1..n -> Datacenters], sn \in [1..n -> SubnetLists] } :
            n \in 0..MaxVlans }

\* str.startswith
StartsWith(str, prefix) ==
    /\ Len(str) >= Len(prefix)
    /\ SubSeq(str, 1, Len(prefix)) = prefix

\* the prefix of the private range, "10."
PrivatePrefix == <<"1", "0", ".">>

\* networkManager.list_vlans(datacenter=datacenter)
ListVlans(datacenter) ==
    SelectSeq(vlans, LAMBDA vlan : datacenter = None \/ vlan.datacenter = datacenter)

\* all([identifier.startswith("10.") for identifier in subnetIdentifiers])
AllSubnetsPrivate(vlan) ==
    \A k \in 1..Len(vlan.subnets) : StartsWith(vlan.subnets[k].networkIdentifier, PrivatePrefix)

\* a bug that would take a VLAN for public when none of its subnets is private
IsPublicVlanMutant(vlan) ==
    \A k \in 1..Len(vlan.subnets) : ~StartsWith(vlan.subnets[k].networkIdentifier, PrivatePrefix)

\* the else branch of the classification: the VLAN goes to publicVlans
IsPublicVlan(vlan) == ~AllSubnetsPrivate(vlan)

\* privateVlans after the loop over vlans
PrivateVlans(vlanList) == SelectSeq(vlanList, AllSubnetsPrivate)

\* publicVlans after the loop over vlans
PublicVlans(vlanList) == SelectSeq(vlanList, IsPublicVlan)

\* ex_get_vlans(includePrivate, includePublic, datacenter)
GetVlans(includePrivate, includePublic, datacenter) ==
    IF ~includePrivate /\ ~includePublic THEN <<>>
    ELSE LET vlanList == ListVlans(datacenter)
         IN  IF includePrivate /\ ~includePublic THEN PrivateVlans(vlanList)
             ELSE IF includePublic /\ ~includePrivate THEN PublicVlans(vlanList)
             ELSE vlanList

\* a call of ex_get_vlans with the default datacenter (None)
ex_get_vlans(includePrivate, includePublic) ==
    /\ pc = "idle"
    /\ answers' = Put(answers, <<includePrivate, includePublic>>,
                      GetVlans(includePrivate, includePublic, None))
    /\ UNCHANGED <<pc, loopVars, logged, guests, histVars, vlans, listVars, clusterVars, callVars>>

InitVlans ==
    /\ InitDriver
    /\ driver = "driver1"
    /\ servers = EmptyDict
    /\ vlans \in VlanLists
    /\ guests = EmptyDict
    /\ cluster = NoCluster
    /\ items = <<>>

NextVlans == \E includePrivate, includePublic \in BOOLEAN : ex_get_vlans(includePrivate, includePublic)

SpecVlans == InitVlans /\ [][NextVlans]_vars


(***************************************************************************)
(* create_node and ex_create_cluster                                       *)
(***************************************************************************)
\* the keyword arguments create_node asks for, in the order it checks them
CreateNodeRequired == <<"image", "location", "name", "size">>

\* the keyword arguments ex_create_cluster asks for, in the order it checks them
CreateClusterRequired == <<"cluster", "image", "location", "names", "size">>

\* cluster names a caller may ask for
ClusterNames == {"c"}

\* the lists of node names a caller may hand to ex_create_cluster
NameLists == UNION { [1..n -> Names] : n \in 0..MaxConfigs }

\* the keyword arguments a caller may hand to create_node: any subset of the keys
CreateNodeKwargs ==
    { [k \in keys |-> IF k = "name" THEN name
                      ELSE IF k = "location" THEN "dal05"
                      ELSE k] :
        keys \in SUBSET { CreateNodeRequired[i] : i \in 1..Len(CreateNodeRequired) },
        name \in Names }

\* the keyword arguments a caller may hand to ex_create_cluster
CreateClusterKwargs ==
    { [k \in keys |-> IF k = "names" THEN names
                      ELSE IF k = "cluster" THEN clusterName
                      ELSE IF k = "location" THEN "dal05"
                      ELSE k] :
        keys \in SUBSET { CreateClusterRequired[i] : i \in 1..Len(CreateClusterRequired) },
        names \in NameLists, clusterName \in ClusterNames }

\* a bug that would forget the check of the last keyword argument
MissingArgumentMutant(required, kw) ==
    LET missing == { i \in 1..(Len(required) - 1) : required[i] \notin DOMAIN kw }
    IN  IF missing = {} THEN None
        ELSE required[CHOOSE i \in missing : \A j \in missing : i <= j]

\* the chain of 'if "<key>" not in kwargs: raise ValueError': the first key
\* that is missing, None when all are there
MissingArgument(required, kw) ==
    LET missing == { i \in 1..Len(required) : required[i] \notin DOMAIN kw }
    IN  IF missing = {} THEN None
        ELSE required[CHOOSE i \in missing : \A j \in missing : i <= j]

\* raise ValueError("'<key>' needs to be specified")
ValueError(key) == [kind |-> "ValueError", value |-> key]

\* create_node(timeout, **kwargs) up to its call of ex_create_nodes
create_node(kw, t) ==
    /\ pc = "idle"
    /\ caller' = "create_node"
    /\ kwargs' = kw
    /\ IF MissingArgument(CreateNodeRequired, kw) # None
       THEN /\ ret' = ValueError(MissingArgument(CreateNodeRequired, kw))
            /\ pc' = "raised"
            /\ UNCHANGED <<configs, tags, timeout, timeout0>>
       ELSE /\ EnterCreateNodes(<<[hostname |-> kw["name"], domain |-> Domain, tags |-> NoTags,
                                   public_vlan |-> NoVlan, private_vlan |-> NoVlan]>>, t)
            /\ UNCHANGED ret
    /\ logged' = NoLog
    /\ UNCHANGED <<instanceInfos, idx, readyInstances, transactions, nodes, guests,
                   seen, rounds, wasReady, lastLabel, calls, vlanVars, listVars, clusterVars>>

\* a bug that would raise when the batch creation yields no nodes
CreateNodeResultMutant(nodeList) ==
    IF nodeList # <<>> THEN [kind |-> "node", value |-> nodeList[1]]
    ELSE [kind |-> "TimeoutError", value |-> None]

\* if nodes: return nodes[0] / else: return None
CreateNodeResult(nodeList) ==
    IF nodeList # <<>> THEN [kind |-> "node", value |-> nodeList[1]]
    ELSE [kind |-> "None", value |-> None]

\* nodes = self.ex_create_nodes([createOptions], timeout=timeout); return nodes[0] or None
create_node_return ==
    /\ pc = "return"
    /\ caller = "create_node"
    /\ ret' = CreateNodeResult(nodes)
    /\ IF nodes # <<>>
       THEN logged' = [level |-> "info", fqdn |-> None, text |-> "took"]
       ELSE logged' = [level |-> "error", fqdn |-> None, text |-> "timed out"]
    /\ pc' = "returned"
    /\ UNCHANGED <<loopVars, guests, histVars, vlanVars, listVars, clusterVars, caller, kwargs>>

\* ex_create_cluster(timeout, **kwargs): the checks of the keyword arguments
ex_create_cluster(kw, t) ==
    /\ pc = "idle"
    /\ caller' = "ex_create_cluster"
    /\ kwargs' = kw
    /\ IF MissingArgument(CreateClusterRequired, kw) # None
       THEN /\ ret' = ValueError(MissingArgument(CreateClusterRequired, kw))
            /\ pc' = "raised"
       ELSE /\ pc' = "getClusterByName"
            /\ UNCHANGED ret
    /\ timeout' = t
    /\ timeout0' = t
    /\ logged' = NoLog
    /\ UNCHANGED <<configs, tags, instanceInfos, idx, readyInstances, transactions, nodes,
                   guests, seen, rounds, wasReady, lastLabel, calls, vlanVars, listVars, clusterVars>>

\* the tag ex_get_cluster_by_name filters by
NameTag(name) == "storm.cluster.name:" \o name

\* the tags ex_create_cluster gives to every node of the cluster; the comma
\* separated string is written as the sequence of its tags
ClusterTags(clusterName) == <<"storm.cluster", NameTag(clusterName)>>

\* vs.list_instances(tags=[tag]): the ids of the guests that carry the tag
GuestsTagged(tag) ==
    { g \in DOMAIN guests : \E k \in 1..Len(guests[g].tags) : guests[g].tags[k] = tag }

\* ex_get_cluster_by_name: cluster.nodes = {node.name: node for node in nodes},
\* the nodes sorted by name; of two nodes of one name the later one stays
ClusterNodes(ids) ==
    [n \in { guests[g].fqdn : g \in ids } |->
        VirtualToNode(CHOOSE g \in ids :
                         /\ guests[g].fqdn = n
                         /\ \A h \in ids : guests[h].fqdn = n => h <= g)]

\* existingNodes = [name for name in names if name in softlayerCluster.nodes]
ExistingNodes(names, clusterNodes) ==
    SelectSeq(names, LAMBDA name : name \in DOMAIN clusterNodes)

\* "check for nodes that already exist": ex_get_cluster_by_name and the test
getClusterByName ==
    /\ pc = "getClusterByName"
    /\ calls' = calls + 2
    /\ LET found == GuestsTagged(NameTag(kwargs["cluster"]))
       IN  IF found # {} /\ ExistingNodes(kwargs["names"], ClusterNodes(found)) # <<>>
           THEN /\ logged' = [level |-> "error", fqdn |-> None, text |-> "already exists"]
                /\ ret' = [kind |-> "None", value |-> None]
                /\ pc' = "returned"
           ELSE /\ logged' = IF found # {}
                             THEN [level |-> "warn", fqdn |-> None, text |-> "already exists"]
                             ELSE NoLog
                /\ pc' = "selectVlans"
                /\ UNCHANGED ret
    /\ UNCHANGED <<loopVars, guests, seen, timeout0, rounds, wasReady, lastLabel,
                   vlanVars, listVars, clusterVars, caller, kwargs>>

\* vlan.get("virtualGuestCount", 0)
GuestCount(vlan) == IF vlan.virtualGuestCount = Absent THEN 0 ELSE vlan.virtualGuestCount

\* a bug that would take the first VLAN of the list
LargestVlanMutant(vlanList) == vlanList[1]

\* sorted(vlanList, key=guest count).pop(): sorted is stable, so of the VLANs
\* with the largest count the last of the list is taken
LargestVlan(vlanList) ==
    vlanList[CHOOSE k \in 1..Len(vlanList) :
                \A j \in 1..Len(vlanList) :
                    \/ GuestCount(vlanList[j]) < GuestCount(vlanList[k])
                    \/ (GuestCount(vlanList[j]) = GuestCount(vlanList[k]) /\ j <= k)]

\* createOptions["public_vlan"] / ["private_vlan"]: set when there is such a VLAN
VlanOption(vlanList) == IF vlanList # <<>> THEN LargestVlan(vlanList).id ELSE NoVlan

\* the VLAN options and the configurations, then the call of ex_create_nodes
selectVlans ==
    /\ pc = "selectVlans"
    /\ calls' = calls + 2
    /\ LET location == kwargs["location"]
           publicVlan == VlanOption(GetVlans(FALSE, TRUE, location))
           privateVlan == VlanOption(GetVlans(TRUE, FALSE, location))
           names == kwargs["names"]
       IN  EnterCreateNodes([i \in 1..Len(names) |->
                                [hostname |-> kwargs["cluster"] \o "-" \o names[i],
                                 domain |-> Domain,
                                 tags |-> ClusterTags(kwargs["cluster"]),
                                 public_vlan |-> publicVlan,
                                 private_vlan |-> privateVlan]], timeout)
    /\ logged' = NoLog
    /\ UNCHANGED <<instanceInfos, idx, readyInstances, transactions, nodes, guests,
                   seen, rounds, wasReady, lastLabel, vlanVars, listVars, clusterVars, callVars>>

\* if nodes: newCluster.nodes = {node.name: node for node in nodes}; return newCluster
\* else: return None
CreateClusterResult(clusterName, nodeList) ==
    IF nodeList # <<>>
    THEN [kind |-> "cluster",
          value |-> [name |-> clusterName,
                     nodes |-> [n \in { nodeList[k].name : k \in 1..Len(nodeList) } |->
                                   nodeList[CHOOSE k \in 1..Len(nodeList) :
                                               /\ nodeList[k].name = n
                                               /\ \A l \in 1..Len(nodeList) :
                                                     nodeList[l].name = n => l <= k]]]]
    ELSE [kind |-> "None", value |-> None]

\* nodes = self.ex_create_nodes(configurations, timeout=timeout); the new cluster or None
ex_create_cluster_return ==
    /\ pc = "return"
    /\ caller = "ex_create_cluster"
    /\ ret' = CreateClusterResult(kwargs["cluster"], nodes)
    /\ IF nodes # <<>>
       THEN logged' = [level |-> "info", fqdn |-> None, text |-> "took"]
       ELSE logged' = [level |-> "error", fqdn |-> None, text |-> "timed out"]
    /\ pc' = "returned"
    /\ UNCHANGED <<loopVars, guests, histVars, vlanVars, listVars, clusterVars, caller, kwargs>>

\* the VLANs of the account in the runs of create_node and ex_create_cluster:
\* a private and a public one
CreateVlans ==
    << [id |-> 1, datacenter |-> "dal05", virtualGuestCount |-> Absent,
        subnets |-> <<[networkIdentifier |-> <<"1", "0", ".", "4">>]>>],
       [id |-> 2, datacenter |-> "dal05", virtualGuestCount |-> Absent,
        subnets |-> <<[networkIdentifier |-> <<"1", "0", "0", ".", "4">>]>>] >>

InitCreate ==
    /\ InitDriver
    /\ driver = "driver1"
    /\ servers = EmptyDict
    /\ vlans = CreateVlans
    /\ guests = EmptyDict
    /\ cluster = NoCluster
    /\ items = <<>>

\* batches a caller hands to ex_create_nodes itself: one configuration per
\* host name, each with tags of its own or without tags
TaggedConfigLists ==
    { cfgs \in UNION { [1..n -> [hostname : Names, domain : {Domain},
                                 tags : {NoTags, <<"web">>, ClusterTags("d")},
                                 public_vlan : {NoVlan}, private_vlan : {NoVlan}]] :
                          n \in 1..MaxConfigs } :
        \A i, j \in 1..Len(cfgs) : i < j => cfgs[i].hostname = "a" /\ cfgs[j].hostname = "b" }

NextCreate ==
    \/ \E kw \in CreateNodeKwargs, t \in Timeouts : create_node(kw, t)
    \/ \E cfgs \in TaggedConfigLists : ex_create_nodes(cfgs, 1)
    \/ \E kw \in CreateClusterKwargs, t \in Timeouts : ex_create_cluster(kw, t)
    \/ getClusterByName
    \/ selectVlans
    \/ createObjects
    \/ setTags
    \/ whileTest
    \/ \E s \in InstanceStatus : pollInstance(s)
    \/ roundEnd
    \/ afterLoop
    \/ collect
    \/ create_node_return
    \/ ex_create_cluster_return

SpecCreate == InitCreate /\ [][NextCreate]_vars

\* the account after ex_create_cluster(cluster="c", names=["a"], ...) has
\* returned its cluster: one guest, c-a, with the tags of the cluster
InitExisting ==
    /\ InitDriver
    /\ driver = "driver1"
    /\ servers = EmptyDict
    /\ vlans = CreateVlans
    /\ guests = Put(EmptyDict, 1, [hostname |-> "c-a", domain |-> Domain,
                                   fqdn |-> Fqdn("c-a", Domain), tags |-> ClusterTags("c")])
    /\ cluster = NoCluster
    /\ items = <<>>

\* create_node and ex_create_cluster on an account that has the cluster
SpecExisting == InitExisting /\ [][NextCreate]_vars

(***************************************************************************)
(* SoftLayerCluster.destroy                                                *)
(***************************************************************************)
\* host names of the nodes of an existing cluster
MemberHostnames == {"a", "b", "c", "d"}

\* the sequences of at most MaxMembers distinct node names: a cluster's
\* self.nodes.items() in the order the dict yields them
ItemOrders ==
    { order \in UNION { [1..n -> { Fqdn(h, Domain) : h \in MemberHostnames }] : n \in 0..MaxMembers } :
          \A i, j \in 1..Len(order) : order[i] = order[j] => i = j }

\* the cluster whose dict yields its nodes in this order; the k-th has id k
ClusterOf(name, order) ==
    [name |-> name,
     nodes |-> [n \in { order[k] : k \in 1..Len(order) } |->
                   [id |-> CHOOSE k \in 1..Len(order) : order[k] = n, name |-> n]]]

\* the provider's guests of the nodes of a cluster
GuestsOf(c) ==
    [g \in { c.nodes[n].id : n \in DOMAIN c.nodes } |->
        [fqdn |-> (CHOOSE n \in DOMAIN c.nodes : c.nodes[n].id = g), tags |-> NoTags]]

\* a bug that would give up at the first node that cannot be destroyed
NextItemMutant(position, destroyed) ==
    IF destroyed THEN position + 1 ELSE Len(items) + 1

\* the for loop goes on with the next item, whatever destroy_node returned
NextItem(position, destroyed) == position + 1

\* a bug that would collect the names of the destroyed nodes
CollectRemainingMutant(remaining, name, destroyed) ==
    IF destroyed THEN Append(remaining, name) ELSE remaining

\* if not self.driver.destroy_node(node): remainingNodes.append(name)
CollectRemaining(remaining, name, destroyed) ==
    IF ~destroyed THEN Append(remaining, name) ELSE remaining

\* cluster.destroy(): start = utcnow(); remainingNodes = []
destroy ==
    /\ pc = "idle"
    /\ cluster # NoCluster
    /\ remainingNodes' = <<>>
    /\ idx' = 1
    /\ pc' = "destroy"
    /\ UNCHANGED <<configs, tags, timeout, instanceInfos, readyInstances, transactions, nodes,
                   logged, guests, histVars, vlanVars, listVars, cluster, items, report, attempts, callVars>>

\* one pass of "for name, node in self.nodes.items()"; destroyed is what
\* destroy_node (vs.cancel_instance) returns: True if the destroy was successful
destroyNode(destroyed) ==
    /\ pc = "destroy"
    /\ idx <= Len(items)
    /\ LET name == items[idx]
           node == cluster.nodes[name]
       IN  /\ attempts' = Append(attempts, [name |-> name, id |-> node.id, result |-> destroyed])
           /\ guests' = IF destroyed
                        THEN [g \in DOMAIN guests \ {node.id} |-> guests[g]]
                        ELSE guests
           /\ remainingNodes' = CollectRemaining(remainingNodes, name, destroyed)
    /\ calls' = calls + 1
    /\ idx' = NextItem(idx, destroyed)
    /\ UNCHANGED <<pc, configs, tags, timeout, instanceInfos, readyInstances, transactions, nodes,
                   logged, seen, timeout0, rounds, wasReady, lastLabel, vlanVars, listVars,
                   cluster, items, report, callVars>>

\* if not remainingNodes: log.info(... took ...) else: log.error(... names ...)
destroyReport ==
    /\ pc = "destroy"
    /\ idx > Len(items)
    /\ report' = IF remainingNodes = <<>>
                 THEN [level |-> "info", names |-> <<>>]
                 ELSE [level |-> "error", names |-> remainingNodes]
    /\ pc' = "destroyed"
    /\ UNCHANGED <<loopVars, logged, guests, histVars, vlanVars, listVars,
                   cluster, items, remainingNodes, attempts, callVars>>

InitDestroy ==
    /\ InitDriver
    /\ driver = "driver1"
    /\ servers = EmptyDict
    /\ vlans = <<>>
    /\ \E order \in ItemOrders :
          /\ items = order
          /\ cluster = ClusterOf("c", order)
          /\ guests = GuestsOf(ClusterOf("c", order))

NextDestroy ==
    \/ destroy
    \/ \E destroyed \in BOOLEAN : destroyNode(destroyed)
    \/ destroyReport

SpecDestroy == InitDestroy /\ [][NextDestroy]_vars

(***************************************************************************)
(* _hardware_to_node and _virtual_to_node                                  *)
(***************************************************************************)
\* largest number of tag references of a provider record
MaxTagReferences == 2
\* largest number of operating system passwords of a provider record
MaxPasswords == 2

\* f, with the keys of g added or replaced (dict.update)
Merge(f, g) == [k \in DOMAIN f \cup DOMAIN g |-> IF k \in DOMAIN g THEN g[k] ELSE f[k]]

\* a key that a provider record may lack: no entry, or an entry with one of the values
OptionalKey(key, values) == {EmptyDict} \cup { [k \in {key} |-> v] : v \in values }

\* the prefix of the tag that carries the cluster name
NamePrefix == "storm.cluster.name:"

\* the tags a provider record may carry
TagNames == {"storm.cluster", "web"}

\* tagReferences of a record: internal is 0 for the tags of the user
TagReferenceLists ==
    UNION { [1..n -> [tag : [name : TagNames, internal : {0, 1}]]] :
            n \in 0..MaxTagReferences }

\* the power state key names of the provider; SUSPENDED is not in NODE_STATE_MAP
KeyNames == {"RUNNING", "HALTED", "PAUSED", "INITIATING", "SUSPENDED"}

\* powerState of a record: a dict with or without keyName
PowerStates == OptionalKey("keyName", KeyNames)

\* an entry of operatingSystem.passwords, with or without its password
PasswordEntries ==
    { Merge([username |-> "root"], p) : p \in OptionalKey("password", {"pw1", "pw2"}) }

\* operatingSystem of a record: a dict with or without passwords
OperatingSystems ==
    OptionalKey("passwords", UNION { [1..n -> PasswordEntries] : n \in 0..MaxPasswords })

\* the keys every record of a guest or server has
BaseInstance(id, hostname) ==
    [k \in {"id", "hostname", "domain", "fullyQualifiedDomainName"} |->
        IF k = "id" THEN id
        ELSE IF k = "hostname" THEN hostname
        ELSE IF k = "domain" THEN Domain
        ELSE Fqdn(hostname, Domain)]

\* the records vs.list_instances / vs.get_instance may return
VirtualInstances ==
    { Merge(Merge(Merge(BaseInstance(1, "a"), t), p), o) :
        t \in OptionalKey("tagReferences", TagReferenceLists),
        p \in OptionalKey("powerState", PowerStates),
        o \in OptionalKey("operatingSystem", OperatingSystems) }

\* the records hardwareManager.list_hardware may return; the provider gives
\* servers a power state as well, which the mask does not ask for
HardwareInstances ==
    { Merge(Merge(Merge(Merge(BaseInstance(1, "a"), f), t), p), o) :
        f \in { [k \in {"bareMetalInstanceFlag"} |-> v] : v \in {0, 1} },
        t \in OptionalKey("tagReferences", TagReferenceLists),
        p \in OptionalKey("powerState", {[keyName |-> "RUNNING"], [keyName |-> "HALTED"]}),
        o \in OptionalKey("operatingSystem", OperatingSystems) }

\* a bug that would keep the internal tags
ExtraTagsMutant(inst) ==
    LET references == IF "tagReferences" \in DOMAIN inst THEN inst["tagReferences"] ELSE <<>>
    IN  [k \in 1..Len(references) |-> references[k].tag.name]

\* [reference["tag"]["name"] for reference in instance.get("tagReferences", [])
\*  if reference["tag"]["internal"] == 0]
ExtraTags(inst) ==
    LET references == IF "tagReferences" \in DOMAIN inst THEN inst["tagReferences"] ELSE <<>>
        kept == SelectSeq(references, LAMBDA reference : reference.tag.internal = 0)
    IN  [k \in 1..Len(kept) |-> kept[k].tag.name]

\* instance["operatingSystem"]["passwords"][0]["password"] raises no exception
HasFirstPassword(inst) ==
    /\ "operatingSystem" \in DOMAIN inst
    /\ "passwords" \in DOMAIN inst["operatingSystem"]
    /\ Len(inst["operatingSystem"]["passwords"]) >= 1
    /\ "password" \in DOMAIN inst["operatingSystem"]["passwords"][1]

\* a bug that would leave the password empty when the record has none
ExtraPasswordMutant(inst) ==
    IF HasFirstPassword(inst) THEN inst["operatingSystem"]["passwords"][1]["password"]
    ELSE ""

\* try: extra["password"] = ...[0]["password"] / except: extra["password"] = "unknown"
ExtraPassword(inst) ==
    IF HasFirstPassword(inst) THEN inst["operatingSystem"]["passwords"][1]["password"]
    ELSE "unknown"

\* libcloud's NodeState values, by name
NODE_STATE_MAP ==
    [RUNNING |-> "running", HALTED |-> "stopped", PAUSED |-> "unknown", INITIATING |-> "pending"]

\* a bug that would take a guest without a known power state for a running one
VirtualStateMutant(inst) ==
    IF "powerState" \in DOMAIN inst /\ "keyName" \in DOMAIN inst["powerState"]
    THEN IF inst["powerState"]["keyName"] \in DOMAIN NODE_STATE_MAP
         THEN NODE_STATE_MAP[inst["powerState"]["keyName"]]
         ELSE "running"
    ELSE "running"

\* state = self.NODE_STATE_MAP.get(keyName, NodeState.UNKNOWN), or UNKNOWN
VirtualState(inst) ==
    IF "powerState" \in DOMAIN inst /\ "keyName" \in DOMAIN inst["powerState"]
    THEN IF inst["powerState"]["keyName"] \in DOMAIN NODE_STATE_MAP
         THEN NODE_STATE_MAP[inst["powerState"]["keyName"]]
         ELSE "unknown"
    ELSE "unknown"

\* "TODO: check power state": state = NodeState.RUNNING
HardwareState(inst) == "running"

\* _virtual_to_node(instance) of the driver self; addresses and disks left out
virtual_to_node(inst, self) ==
    [id |-> inst["id"],
     name |-> inst["fullyQualifiedDomainName"],
     state |-> VirtualState(inst),
     driver |-> self,
     size |-> [driver |-> self],
     extra |-> [domain |-> inst["domain"], hostname |-> inst["hostname"],
                tags |-> ExtraTags(inst), type |-> "virtual_server",
                password |-> ExtraPassword(inst)]]

\* _hardware_to_node(instance) of the driver self; addresses and disks left out
hardware_to_node(inst, self) ==
    [id |-> inst["id"],
     name |-> inst["fullyQualifiedDomainName"],
     state |-> HardwareState(inst),
     driver |-> self,
     size |-> [driver |-> self],
     extra |-> [domain |-> inst["domain"], hostname |-> inst["hostname"],
                tags |-> ExtraTags(inst),
                type |-> IF inst["bareMetalInstanceFlag"] = 1 THEN "bare_metal"
                         ELSE "virtual_server",
                password |-> ExtraPassword(inst)]]

\* the driver translates a record of a guest
translateVirtual(inst) ==
    /\ pc = "idle"
    /\ instanceDict' = inst
    /\ nodeMade' = virtual_to_node(inst, driver)
    /\ pc' = "translated"
    /\ UNCHANGED <<loopVars, logged, guests, histVars, vlanVars, clusterVars, callVars,
                   driver, servers, listed, earlier>>

\* the driver translates a record of a server
translateHardware(inst) ==
    /\ pc = "idle"
    /\ instanceDict' = inst
    /\ nodeMade' = hardware_to_node(inst, driver)
    /\ pc' = "translated"
    /\ UNCHANGED <<loopVars, logged, guests, histVars, vlanVars, clusterVars, callVars,
                   driver, servers, listed, earlier>>

InitTranslate ==
    /\ InitDriver
    /\ driver \in Drivers
    /\ servers = EmptyDict
    /\ vlans = <<>>
    /\ guests = EmptyDict
    /\ cluster = NoCluster
    /\ items = <<>>

NextTranslate ==
    \/ pc = "idle" /\ \E inst \in VirtualInstances : translateVirtual(inst)
    \/ pc = "idle" /\ \E inst \in HardwareInstances : translateHardware(inst)

SpecTranslate == InitTranslate /\ [][NextTranslate]_vars

(***************************************************************************)
(* The list operations: list_nodes, ex_get_hardware_nodes,                 *)
(* ex_get_virtual_nodes, ex_get_cluster_by_name, ex_list_clusters.         *)
(***************************************************************************)
\* largest number of guests the provider holds when a list operation is called
MaxGuests == 2
\* largest number of hardware servers the provider holds then
MaxServers == 1

\* the strings the driver sorts by (node names, cluster names), in the order
\* of Python 2, where None comes before every string
StringOrder ==
    <<None, Fqdn("a", Domain), Fqdn("b", Domain), "c", Fqdn("c-a", Domain),
      Fqdn("c-b", Domain), Fqdn("c", Domain), "d", Fqdn("d", Domain)>>

\* the place of a string in that order
Rank(str) == CHOOSE k \in 1..Len(StringOrder) : StringOrder[k] = str

\* sorted(list, key=lambda item: item.name): a stable sort
SortedByName(list) ==
    LET Before(i, j) == \/ Rank(list[i].name) < Rank(list[j].name)
                        \/ (Rank(list[i].name) = Rank(list[j].name) /\ i < j)
        Place(i) == Cardinality({ j \in 1..Len(list) : Before(j, i) }) + 1
    IN  [k \in 1..Len(list) |-> list[CHOOSE i \in 1..Len(list) : Place(i) = k]]

\* the ids of a provider table in the order the provider lists them
IdsInOrder(table) ==
    LET Place(i) == Cardinality({ j \in DOMAIN table : j < i }) + 1
    IN  [k \in 1..Cardinality(DOMAIN table) |-> CHOOSE i \in DOMAIN table : Place(i) = k]

\* the record the provider returns for an entry of one of its tables under
\* the mask of the driver; the tags of the user have the internal flag 0
RecordOf(id, entry) ==
    [k \in {"id", "hostname", "domain", "fullyQualifiedDomainName", "tagReferences"} |->
        IF k = "id" THEN id
        ELSE IF k = "hostname" THEN entry.hostname
        ELSE IF k = "domain" THEN entry.domain
        ELSE IF k = "fullyQualifiedDomainName" THEN entry.fqdn
        ELSE [i \in 1..Len(entry.tags) |-> [tag |-> [name |-> entry.tags[i], internal |-> 0]]]]

\* list_instances(tags=[tag]) / list_hardware(tags=[tag]): the records of the
\* entries that carry the tag, all records when no tag is asked for
ListRecords(table, tag) ==
    LET ids == SelectSeq(IdsInOrder(table),
                         LAMBDA id : \/ tag = None
                                     \/ \E k \in 1..Len(table[id].tags) : table[id].tags[k] = tag)
    IN  [k \in 1..Len(ids) |-> RecordOf(ids[k], table[ids[k]])]

\* ex_get_virtual_nodes(tags=[tag]) of the driver self
GetVirtualNodes(tag, self) ==
    LET records == ListRecords(guests, tag)
    IN  SortedByName([k \in 1..Len(records) |-> virtual_to_node(records[k], self)])

\* ex_get_hardware_nodes(tags=[tag]) of the driver self; the servers of the
\* provider tables are bare metal
GetHardwareNodes(tag, self) ==
    LET records == ListRecords(servers, tag)
    IN  SortedByName([k \in 1..Len(records) |->
                         hardware_to_node(Merge(records[k], [bareMetalInstanceFlag |-> 1]), self)])

\* list_nodes()
ListNodes(self) == SortedByName(GetHardwareNodes(None, self) \o GetVirtualNodes(None, self))

\* {node.name: node for node in nodes}: of the nodes of one name the last stays
NodesByName(nodeList) ==
    [n \in { nodeList[k].name : k \in 1..Len(nodeList) } |->
        nodeList[CHOOSE k \in 1..Len(nodeList) :
                    /\ nodeList[k].name = n
                    /\ \A l \in 1..Len(nodeList) : nodeList[l].name = n => l <= k]]

\* ex_get_cluster_by_name(name)
GetClusterByName(name, self) ==
    LET nodeList == GetHardwareNodes(NameTag(name), self) \o GetVirtualNodes(NameTag(name), self)
    IN  IF nodeList # <<>> THEN [name |-> name, nodes |-> NodesByName(nodeList)]
        ELSE NoCluster

\* text that follows the prefix in a name tag; the tag of a cluster whose name
\* is itself a name tag repeats the prefix
TagSuffixes == {"c", "d", NamePrefix \o "c"}

\* tag.startswith("storm.cluster.name:")
StartsWithNamePrefix(tag) == \E suffix \in TagSuffixes : tag = NamePrefix \o suffix

\* tag.replace("storm.cluster.name:", ""): every occurrence of the prefix goes
WithoutNamePrefix(tag) ==
    LET suffix == CHOOSE x \in TagSuffixes : tag = NamePrefix \o x
    IN  IF StartsWithNamePrefix(suffix)
        THEN CHOOSE y \in TagSuffixes : suffix = NamePrefix \o y
        ELSE suffix

\* get_cluster_name(tags): made of the first tag that starts with the prefix
get_cluster_name(tagList) ==
    LET matching == { k \in 1..Len(tagList) : StartsWithNamePrefix(tagList[k]) }
    IN  IF matching = {} THEN None
        ELSE WithoutNamePrefix(tagList[CHOOSE k \in matching : \A l \in matching : k <= l])

\* a bug that would keep one node per cluster only
ClusterMembersMutant(nodeList, clusterName) ==
    LET members == SelectSeq(nodeList,
                             LAMBDA member : get_cluster_name(member.extra.tags) = clusterName)
    IN  NodesByName(<<members[Len(members)]>>)

\* clusterMap[clusterName].nodes after the loop over the nodes:
\* clusterMap[clusterName].nodes[node.name] = node for each node of that name
ClusterMembers(nodeList, clusterName) ==
    NodesByName(SelectSeq(nodeList,
                          LAMBDA member : get_cluster_name(member.extra.tags) = clusterName))

\* ex_list_clusters()
ListClusters(self) ==
    LET nodeList == GetHardwareNodes("storm.cluster", self) \o GetVirtualNodes("storm.cluster", self)
        clusterNames == { get_cluster_name(nodeList[k].extra.tags) : k \in 1..Len(nodeList) }
        Place(n) == Cardinality({ other \in clusterNames : Rank(other) < Rank(n) }) + 1
    IN  [k \in 1..Cardinality(clusterNames) |->
            LET clusterName == CHOOSE n \in clusterNames : Place(n) = k
            IN  [name |-> clusterName, nodes |-> ClusterMembers(nodeList, clusterName)]]

\* a list operation returns: the result is kept with the one before it
ReturnList(call, value) ==
    /\ pc \in {"idle", "changed"}
    /\ listed' = [call |-> call, value |-> value]
    /\ earlier' = listed
    /\ pc' = IF pc = "idle" THEN "listed" ELSE "relisted"
    /\ UNCHANGED <<loopVars, logged, guests, histVars, vlanVars, clusterVars, callVars,
                   driver, servers, instanceDict, nodeMade>>

\* a bug that would answer a list call from the result of the call before it
FetchedMutant(previous, current) == IF previous # <<>> THEN previous ELSE current

\* every list call asks the provider: nothing of an earlier result is used
Fetched(previous, current) == current

\* the call list_nodes()
list_nodes == ReturnList("list_nodes", Fetched(listed.value, ListNodes(driver)))

\* the call ex_get_cluster_by_name(name); None is the empty result
ex_get_cluster_by_name(name) ==
    ReturnList("ex_get_cluster_by_name",
               Fetched(listed.value,
                       IF GetClusterByName(name, driver) = NoCluster THEN <<>>
                       ELSE <<GetClusterByName(name, driver)>>))

\* the call ex_list_clusters()
ex_list_clusters == ReturnList("ex_list_clusters", Fetched(listed.value, ListClusters(driver)))

\* DEFAULT_CPU_SIZE
DEFAULT_CPU_SIZE == 2
\* DEFAULT_RAM_SIZE
DEFAULT_RAM_SIZE == 2048

\* copy.deepcopy of a reference to a driver: None stays None, a driver is
\* copied into another object
DeepCopyDriver(reference) == IF reference = None THEN None ELSE reference \o " (copy)"

\* copy.deepcopy(size)
DeepCopySize(size) == [driver |-> DeepCopyDriver(size.driver), extra |-> size.extra]

\* get_additional_sizes(name, options, existingSizes): for every option a copy
\* of every existing size, with extra[name] = option
get_additional_sizes(name, options, existingSizes) ==
    [k \in 1..(Len(options) * Len(existingSizes)) |->
        LET option == options[((k - 1) \div Len(existingSizes)) + 1]
            size == DeepCopySize(existingSizes[((k - 1) % Len(existingSizes)) + 1])
        IN  [driver |-> size.driver, extra |-> Merge(size.extra, [k2 \in {name} |-> option])]]

\* sorted(set) of at most two of the processor options
SortedCpus(cpus) ==
    LET Place(c) == Cardinality({ other \in cpus : other < c }) + 1
    IN  [k \in 1..Cardinality(cpus) |-> CHOOSE c \in cpus : Place(c) = k]

\* a bug that would forget to adjust the driver of the sizes
AdjustDriverMutant(size, self) == size

\* "adjust driver properties": size.driver = self
AdjustDriver(size, self) == [size EXCEPT !.driver = self]

\* list_sizes() for the processor and memory options of the provider
ListSizes(cpus, memory, self) ==
    LET template == <<[driver |-> None,
                       extra |-> [cpu |-> DEFAULT_CPU_SIZE, disks |-> <<100>>,
                                  memory |-> DEFAULT_RAM_SIZE \div 1024,
                                  type |-> "virtual_server"]]>>
        withCpus == get_additional_sizes("cpu", SortedCpus(cpus), template)
        sizes == get_additional_sizes("memory", memory, withCpus)
    IN  [k \in 1..Len(sizes) |-> AdjustDriver(sizes[k], self)]

\* list_images() for the operating systems and the images of the provider:
\* the operating system images first, then the images sorted by name
ListImages(operatingSystems, images, self) ==
    [k \in 1..Len(operatingSystems) |->
        [id |-> operatingSystems[k].code, name |-> operatingSystems[k].name, driver |-> self]]
    \o LET sorted == SortedByName(images)
       IN  [k \in 1..Len(sorted) |->
               [id |-> sorted[k].globalIdentifier, name |-> sorted[k].name, driver |-> self,
                extra |-> [id |-> sorted[k].id]]]

\* list_locations() for the datacenters of the provider
ListLocations(datacenters, self) ==
    [k \in 1..Len(datacenters) |->
        [id |-> datacenters[k].name, name |-> datacenters[k].longName, country |-> "",
         driver |-> self, extra |-> [id |-> datacenters[k].id]]]

\* the processor options of the provider (startCpus)
CpuOptions == SUBSET {1, 2}

\* the memory options of the provider (maxMemory), in its order
MemoryOptions == UNION { [1..n -> {1024, 2048}] : n \in 0..2 }

\* the operating systems of the provider
OperatingSystemLists ==
    { <<>>, <<[code |-> "UBUNTU_14_64", name |-> "Ubuntu"]>> }

\* the private and public images of the provider; the names are printable
ImageLists ==
    UNION { [1..n -> { [globalIdentifier |-> "g1", name |-> "c", id |-> 1],
                       [globalIdentifier |-> "g2", name |-> "d", id |-> 2] }] : n \in 0..2 }

\* the datacenters of the provider
DatacenterLists ==
    { <<>>, <<[id |-> 1, name |-> "dal05", longName |-> "Dallas 5"]>> }

\* the call list_sizes()
list_sizes(cpus, memory) == ReturnList("list_sizes", ListSizes(cpus, memory, driver))

\* the call list_images()
list_images(operatingSystems, images) ==
    ReturnList("list_images", ListImages(operatingSystems, images, driver))

\* the call list_locations()
list_locations(datacenters) == ReturnList("list_locations", ListLocations(datacenters, driver))

\* the tags a guest of the account may carry
GuestTagLists == {NoTags, <<"storm.cluster">>, ClusterTags("c"), ClusterTags("d")}

\* the guests the account may hold
GuestEntries ==
    { [hostname |-> h, domain |-> Domain, fqdn |-> Fqdn(h, Domain), tags |-> t] :
        h \in Names, t \in GuestTagLists }

\* the hardware servers the account may hold
ServerEntries ==
    { [hostname |-> "a", domain |-> Domain, fqdn |-> Fqdn("a", Domain), tags |-> t] :
        t \in {NoTags, ClusterTags("c")} }

\* the account when a list operation is called
InitList ==
    /\ InitDriver
    /\ driver \in Drivers
    /\ vlans = <<>>
    /\ cluster = NoCluster
    /\ items = <<>>
    /\ guests \in UNION { [1..n -> GuestEntries] : n \in 0..MaxGuests }
    /\ servers \in UNION { [1..n -> ServerEntries] : n \in 0..MaxServers }

NextList ==
    \/ list_nodes
    \/ \E name \in {"c", "d"} : ex_get_cluster_by_name(name)
    \/ ex_list_clusters
    \/ \E cpus \in CpuOptions, memory \in MemoryOptions : list_sizes(cpus, memory)
    \/ \E operatingSystems \in OperatingSystemLists, images \in ImageLists :
          list_images(operatingSystems, images)
    \/ \E datacenters \in DatacenterLists : list_locations(datacenters)

SpecList == InitList /\ [][NextList]_vars

(***************************************************************************)
(* List operations while the account changes: guests and servers are       *)
(* ordered and cancelled between two list calls, by this driver or by      *)
(* anybody else who uses the account.                                      *)
(***************************************************************************)
\* the id the provider gives to the next entry of one of its tables
NextId(table) ==
    IF DOMAIN table = {} THEN 1
    ELSE (CHOOSE m \in DOMAIN table : \A k \in DOMAIN table : k <= m) + 1

\* the guests and servers ordered and held while the account changes
LiveEntries(hostnames) ==
    { [hostname |-> h, domain |-> Domain, fqdn |-> Fqdn(h, Domain), tags |-> t] :
        h \in hostnames, t \in {NoTags, ClusterTags("c")} }

\* a guest is created at the provider
orderGuest(entry) ==
    /\ pc = "listed"
    /\ guests' = Put(guests, NextId(guests), entry)
    /\ pc' = "changed"
    /\ UNCHANGED <<loopVars, logged, histVars, vlanVars, clusterVars, callVars, listVars>>

\* a server is ordered at the provider
orderServer(entry) ==
    /\ pc = "listed"
    /\ servers' = Put(servers, NextId(servers), entry)
    /\ pc' = "changed"
    /\ UNCHANGED <<loopVars, logged, guests, histVars, vlanVars, clusterVars, callVars,
                   driver, instanceDict, nodeMade, listed, earlier>>

\* a guest is cancelled at the provider
cancelGuest(id) ==
    /\ pc = "listed"
    /\ id \in DOMAIN guests
    /\ guests' = [g \in DOMAIN guests \ {id} |-> guests[g]]
    /\ pc' = "changed"
    /\ UNCHANGED <<loopVars, logged, histVars, vlanVars, clusterVars, callVars, listVars>>

\* a server is cancelled at the provider
cancelServer(id) ==
    /\ pc = "listed"
    /\ id \in DOMAIN servers
    /\ servers' = [g \in DOMAIN servers \ {id} |-> servers[g]]
    /\ pc' = "changed"
    /\ UNCHANGED <<loopVars, logged, guests, histVars, vlanVars, clusterVars, callVars,
                   driver, instanceDict, nodeMade, listed, earlier>>

InitLive ==
    /\ InitDriver
    /\ driver = "driver1"
    /\ vlans = <<>>
    /\ cluster = NoCluster
    /\ items = <<>>
    /\ guests \in UNION { [1..n -> LiveEntries(Names)] : n \in 0..MaxGuests }
    /\ servers \in UNION { [1..n -> LiveEntries({"a"})] : n \in 0..MaxServers }

NextLive ==
    \/ list_nodes
    \/ ex_get_cluster_by_name("c")
    \/ ex_list_clusters
    \/ \E entry \in LiveEntries(Names) : orderGuest(entry)
    \/ \E entry \in LiveEntries({"a"}) : orderServer(entry)
    \/ \E id \in DOMAIN guests : cancelGuest(id)
    \/ \E id \in DOMAIN servers : cancelServer(id)

SpecLive == InitLive /\ [][NextLive]_vars

(***************************************************************************)
(* The VLANs ex_create_cluster puts its nodes on.                          *)
(***************************************************************************)
\* the VLAN lists of an account with two datacenters: every VLAN is in one
\* of them, has a private or a public subnet, and has a guest count or none
PlacementVlanLists ==
    UNION { { [i \in 1..n |-> [id |-> i, datacenter |-> d[i], virtualGuestCount |-> c[i],
                               subnets |-> <<[networkIdentifier |-> sn[i]]>>]] :
                 d \in [1..n -> {"dal05", "sjc01"}],
                 c \in [1..n -> {Absent, 0, 1}],
                 sn \in [1..n -> SubnetIdentifiers] } :
            n \in 0..MaxVlans }

\* the calls of ex_create_cluster with every required keyword argument
CompleteClusterKwargs ==
    { kw \in CreateClusterKwargs :
        DOMAIN kw = { CreateClusterRequired[i] : i \in 1..Len(CreateClusterRequired) } }

InitPlacement ==
    /\ InitDriver
    /\ driver = "driver1"
    /\ servers = EmptyDict
    /\ guests = EmptyDict
    /\ cluster = NoCluster
    /\ items = <<>>
    /\ vlans \in PlacementVlanLists

\* ex_create_cluster up to the configurations it hands to ex_create_nodes
NextPlacement ==
    \/ \E kw \in CompleteClusterKwargs : ex_create_cluster(kw, 1)
    \/ getClusterByName
    \/ selectVlans

SpecPlacement == InitPlacement /\ [][NextPlacement]_vars

(***************************************************************************)
(* Properties of the provisioning wait loop.                               *)
(***************************************************************************)
\* the positions of the submitted instances
Submitted == 1..Len(instanceInfos)

\* the call has returned (ex_create_nodes is at one of its two return statements)
Returned == pc = "return"

\* a status with a provision date and no active transaction
StatusReady(s) == s.provisionDate # None /\ s.activeTransaction = NoTransaction

\* the instance at position i is one the readiness test of the loop skips
Marked(i) == instanceInfos[i].fullyQualifiedDomainName \in readyInstances

\* the ids of the nodes in the returned list
NodeIds == { nodes[k].id : k \in 1..Len(nodes) }

\* every submitted instance was ready when the loop came to it in some round
EveryInstanceWasReady == \A i \in Submitted : instanceInfos[i].id \in wasReady

\* the fully qualified domain names of the batch are pairwise distinct
DistinctNames ==
    \A i, j \in Submitted :
        instanceInfos[i].fullyQualifiedDomainName = instanceInfos[j].fullyQualifiedDomainName
            => i = j

\* C1: when every submitted instance was ready (provision date set, no active
\* transaction) when the loop came to it in some polling round, the call returns
\* one node for every submitted configuration, in order.
C1_AllReadyReturnsAll ==
    (Returned /\ EveryInstanceWasReady)
        => /\ Len(nodes) = Len(configs)
           /\ \A i \in Submitted : nodes[i].id = instanceInfos[i].id

\* C1 for batches whose domain names are pairwise distinct (holds)
C1_DistinctNames == DistinctNames => C1_AllReadyReturnsAll

\* the call returned because the budget reached zero before all were ready
TimedOut == Returned /\ timeout = 0 /\ \E i \in Submitted : ~Marked(i)

\* C2 as stated: on a timeout the call returns exactly the nodes of the
\* instances that were marked ready.
C2_ReturnsReadySubset ==
    TimedOut => /\ NodeIds = { instanceInfos[i].id : i \in { j \in Submitted : Marked(j) } }
                /\ Len(nodes) = Cardinality(NodeIds)

\* C2 amended: on a timeout the call returns the empty list; the instances
\* marked ready are omitted like those that never finished.
C2_TimeoutReturnsNothing == TimedOut => nodes = <<>>

\* C2 witness: a timeout with one instance marked ready and one not
C2_Witness == TimedOut /\ (\E i \in Submitted : Marked(i)) /\ nodes = <<>>

\* C3: the returned list never has more entries than instances were submitted,
\* every returned node is the node of a submitted instance, and no submitted
\* instance appears in it twice.
C3_NoGrowthNoDuplicates ==
    /\ Len(nodes) <= Len(configs)
    /\ \A k \in 1..Len(nodes) :
          \E i \in 1..Len(configs) :
              /\ i \in Submitted
              /\ nodes[k].id = instanceInfos[i].id
              /\ nodes[k].name = Fqdn(configs[i].hostname, configs[i].domain)
    /\ \A k, l \in 1..Len(nodes) : nodes[k].id = nodes[l].id => k = l

\* C3 witness: a call that returned the nodes of two submitted instances
C3_Witness == Returned /\ Len(nodes) = 2 /\ Len(configs) = 2

\* a step of the loop body for the instance at position idx
VisitStep == pc = "for" /\ idx <= Len(instanceInfos) /\ idx' = idx + 1

C5_BoundedRoundsEarlyStop ==
    /\ rounds <= timeout0
    /\ timeout >= 0
    /\ pc = "while" => timeout = timeout0 - rounds
    /\ pc = "for" => timeout = timeout0 - rounds + 1
    /\ (pc = "while" /\ rounds >= 1) => ~EveryInstanceWasReady

\* C5 for batches whose domain names are pairwise distinct (holds)
C5_DistinctNames == DistinctNames => C5_BoundedRoundsEarlyStop

\* C6: a poll writes a transaction log line for the polled instance exactly when
\* the polled label is non-null and differs from the last label recorded for
\* that instance, and the recorded label is then the polled label.
C6_LogOnChangePerInstance ==
    [][ (VisitStep /\ seen'.polled) =>
            LET fqdn == instanceInfos[idx].fullyQualifiedDomainName
                label == seen'.status.activeTransaction.friendlyName
            IN  /\ (logged' # NoLog) <=> (label # None /\ label # Get(lastLabel, seen'.id))
                /\ (logged' # NoLog) =>
                       /\ logged' = [level |-> "info", fqdn |-> fqdn, text |-> label]
                       /\ Get(transactions', fqdn) = label
      ]_vars

\* C6 for batches whose domain names are pairwise distinct (holds)
C6_DistinctNames ==
    [][ DistinctNames =>
          ((VisitStep /\ seen'.polled) =>
            LET fqdn == instanceInfos[idx].fullyQualifiedDomainName
                label == seen'.status.activeTransaction.friendlyName
            IN  /\ (logged' # NoLog) <=> (label # None /\ label # Get(lastLabel, seen'.id))
                /\ (logged' # NoLog) =>
                       /\ logged' = [level |-> "info", fqdn |-> fqdn, text |-> label]
                       /\ Get(transactions', fqdn) = label)
      ]_vars

(***************************************************************************)
(* Properties of ex_get_vlans.                                             *)
(***************************************************************************)
\* the ids of the VLANs of a result
VlanIds(result) == { result[k].id : k \in 1..Len(result) }

NoVlans == <<FALSE, FALSE>>
PrivateOnly == <<TRUE, FALSE>>
PublicOnly == <<FALSE, TRUE>>
Unfiltered == <<TRUE, TRUE>>

\* C10: for one provider state, the query with both flags false returns the
\* empty list, the private-only and the public-only results share no VLAN, and
\* the ids of the unfiltered result are the ids of the two together.
C10_VlanPartition ==
    /\ NoVlans \in DOMAIN answers => answers[NoVlans] = <<>>
    /\ {PrivateOnly, PublicOnly} \subseteq DOMAIN answers =>
           VlanIds(answers[PrivateOnly]) \cap VlanIds(answers[PublicOnly]) = {}
    /\ {PrivateOnly, PublicOnly, Unfiltered} \subseteq DOMAIN answers =>
           VlanIds(answers[Unfiltered]) =
               VlanIds(answers[PrivateOnly]) \cup VlanIds(answers[PublicOnly])

\* C10 witness: all four queries answered, a private and a public VLAN found
C10_Witness ==
    /\ DOMAIN answers = {NoVlans, PrivateOnly, PublicOnly, Unfiltered}
    /\ answers[PrivateOnly] # <<>>
    /\ answers[PublicOnly] # <<>>
    /\ Len(answers[Unfiltered]) = 2

(***************************************************************************)
(* Properties of SoftLayerCluster.destroy.                                 *)
(***************************************************************************)
\* the positions of the destroy_node calls made for a member
AttemptsOn(name) == { k \in 1..Len(attempts) : attempts[k].name = name }

\* C8: destroy calls destroy_node exactly once on every member node and on
\* nothing else; a failed call does not keep the following members from theirs.
C8_EveryMemberAttemptedOnce ==
    /\ \A k \in 1..Len(attempts) :
          /\ attempts[k].name \in DOMAIN cluster.nodes
          /\ attempts[k].id = cluster.nodes[attempts[k].name].id
    /\ \A name \in DOMAIN cluster.nodes : Cardinality(AttemptsOn(name)) <= 1
    /\ pc = "destroy" => Len(attempts) = idx - 1
    /\ pc = "destroyed" => \A name \in DOMAIN cluster.nodes : Cardinality(AttemptsOn(name)) = 1

\* C8 witness: the first destroy failed and every later member was attempted
C8_Witness ==
    /\ pc = "destroyed"
    /\ Len(attempts) = 3
    /\ ~attempts[1].result
    /\ attempts[3].result

\* the names of the members whose destroy_node returned a false result
FailedMembers == { attempts[k].name : k \in { j \in 1..Len(attempts) : ~attempts[j].result } }

\* C9: destroy reports success if and only if every destroy_node succeeded;
\* otherwise it reports failure with exactly the names of the failed members.
C9_ReportsExactlyTheFailures ==
    pc = "destroyed" =>
        /\ report.level \in {"info", "error"}
        /\ report.level = "info" <=> FailedMembers = {}
        /\ { report.names[k] : k \in 1..Len(report.names) } = FailedMembers
        /\ Len(report.names) = Cardinality(FailedMembers)

\* C9 witness: a cluster of three of which two could not be destroyed
C9_Witness ==
    /\ pc = "destroyed"
    /\ Len(attempts) = 3
    /\ report.level = "error"
    /\ Len(report.names) = 2

(***************************************************************************)
(* Properties of create_node and ex_create_cluster.                        *)
(***************************************************************************)
\* the keyword arguments the running operation asks for
RequiredKeys ==
    IF caller = "create_node" THEN {"image", "location", "name", "size"}
    ELSE IF caller = "ex_create_cluster" THEN {"cluster", "image", "location", "names", "size"}
    ELSE {}

\* C7: create_node or ex_create_cluster called without one of its required
\* keyword arguments raises ValueError at once, having issued no provider
\* request: no lookup, no creation, no tag change.
C7_MissingArgumentRaisesFirst ==
    ~(RequiredKeys \subseteq DOMAIN kwargs) =>
        /\ pc = "raised"
        /\ ret.kind = "ValueError"
        /\ ret.value \in RequiredKeys \ DOMAIN kwargs
        /\ calls = 0
        /\ guests = EmptyDict
        /\ instanceInfos = <<>>

\* C7 witness: ex_create_cluster without its last argument, size, has raised
C7_Witness ==
    /\ caller = "ex_create_cluster"
    /\ DOMAIN kwargs = {"cluster", "image", "location", "names"}
    /\ pc = "raised"
    /\ ret = [kind |-> "ValueError", value |-> "size"]

\* C7 witness for create_node: called with a name only
C7_WitnessNode ==
    /\ caller = "create_node"
    /\ DOMAIN kwargs = {"name"}
    /\ ret = [kind |-> "ValueError", value |-> "image"]

(***************************************************************************)
(* Properties of the classification of ex_get_vlans.                       *)
(***************************************************************************)
\* the network identifiers of the subnets of a VLAN
Identifiers(vlan) == { vlan.subnets[k].networkIdentifier : k \in 1..Len(vlan.subnets) }

\* C11: every subnet identifier of a VLAN of the private-only result starts
\* with "10.", and no subnet identifier of a VLAN of the public-only result does.
C11_PrivateAllPublicNone ==
    /\ PrivateOnly \in DOMAIN answers =>
           \A k \in 1..Len(answers[PrivateOnly]) :
               \A identifier \in Identifiers(answers[PrivateOnly][k]) :
                   StartsWith(identifier, PrivatePrefix)
    /\ PublicOnly \in DOMAIN answers =>
           \A k \in 1..Len(answers[PublicOnly]) :
               \A identifier \in Identifiers(answers[PublicOnly][k]) :
                   ~StartsWith(identifier, PrivatePrefix)

\* C11, the half that holds: the VLANs of the private-only result have
\* private subnets only
C11_PrivateAll ==
    PrivateOnly \in DOMAIN answers =>
        \A k \in 1..Len(answers[PrivateOnly]) :
            \A identifier \in Identifiers(answers[PrivateOnly][k]) :
                StartsWith(identifier, PrivatePrefix)

\* C11, what the public-only result guarantees: each of its VLANs has some
\* subnet outside the private range
C11_PublicSome ==
    PublicOnly \in DOMAIN answers =>
        \A k \in 1..Len(answers[PublicOnly]) :
            \E identifier \in Identifiers(answers[PublicOnly][k]) :
                ~StartsWith(identifier, PrivatePrefix)

(***************************************************************************)
(* Properties of the translators.                                          *)
(***************************************************************************)
\* a translator has made a node of a provider record
Translated == pc = "translated"

\* the record translated was one of a server
OfHardware == "bareMetalInstanceFlag" \in DOMAIN instanceDict

\* the operating system passwords of the record translated, <<>> when the
\* operating system or its password list is absent
RecordPasswords ==
    IF "operatingSystem" \notin DOMAIN instanceDict THEN <<>>
    ELSE IF "passwords" \notin DOMAIN instanceDict["operatingSystem"] THEN <<>>
    ELSE instanceDict["operatingSystem"]["passwords"]

C12_WitnessFirst ==
    /\ Translated
    /\ ~OfHardware
    /\ Len(RecordPasswords) = 2
    /\ "password" \in DOMAIN RecordPasswords[1]
    /\ "password" \in DOMAIN RecordPasswords[2]
    /\ RecordPasswords[1]["password"] # RecordPasswords[2]["password"]
    /\ nodeMade.extra.password = RecordPasswords[1]["password"]

\* the tag references of the record translated
RecordReferences ==
    IF "tagReferences" \in DOMAIN instanceDict THEN instanceDict["tagReferences"] ELSE <<>>

\* the positions of the tag references whose internal flag is 0
UserReferences == { k \in 1..Len(RecordReferences) : RecordReferences[k].tag.internal = 0 }

\* the k-th of these positions
UserReference(k) ==
    CHOOSE p \in UserReferences : Cardinality({ q \in UserReferences : q < p }) = k - 1

\* C14: the tags of a translated node are the names of the tag references of
\* the record whose internal flag is 0, in the order of the record; a record
\* without tag references gives no tags.
C14_TagsAreUserTagsInOrder ==
    Translated =>
        /\ Len(nodeMade.extra.tags) = Cardinality(UserReferences)
        /\ \A k \in 1..Len(nodeMade.extra.tags) :
               nodeMade.extra.tags[k] = RecordReferences[UserReference(k)].tag.name
        /\ "tagReferences" \notin DOMAIN instanceDict => nodeMade.extra.tags = <<>>

\* C14 witness: an internal tag before a tag of the user, which alone is kept
C14_Witness ==
    /\ Translated
    /\ Len(RecordReferences) = 2
    /\ RecordReferences[1].tag.internal = 1
    /\ RecordReferences[2].tag.internal = 0
    /\ nodeMade.extra.tags = <<RecordReferences[2].tag.name>>

\* the power state key name of the record translated, None when it has none
RecordKeyName ==
    IF "powerState" \notin DOMAIN instanceDict THEN None
    ELSE IF "keyName" \notin DOMAIN instanceDict["powerState"] THEN None
    ELSE instanceDict["powerState"]["keyName"]

\* C15: the state of a translated node is running, stopped, unknown or
\* pending; a guest is running when RUNNING, stopped when HALTED, unknown when
\* PAUSED, pending when INITIATING and unknown otherwise; a server is running.
C15_LifecycleState ==
    Translated =>
        /\ nodeMade.state \in {"running", "stopped", "unknown", "pending"}
        /\ OfHardware => nodeMade.state = "running"
        /\ ~OfHardware =>
              nodeMade.state =
                  CASE RecordKeyName = "RUNNING" -> "running"
                    [] RecordKeyName = "HALTED" -> "stopped"
                    [] RecordKeyName = "PAUSED" -> "unknown"
                    [] RecordKeyName = "INITIATING" -> "pending"
                    [] OTHER -> "unknown"

\* C15 witness: a guest in a power state the map does not know
C15_Witness ==
    /\ Translated
    /\ ~OfHardware
    /\ RecordKeyName = "SUSPENDED"
    /\ nodeMade.state = "unknown"

\* C15 witness: a halted server, reported as running
C15_WitnessHardware ==
    /\ Translated
    /\ OfHardware
    /\ RecordKeyName = "HALTED"
    /\ nodeMade.state = "running"

(***************************************************************************)
(* Properties of the list operations.                                      *)
(***************************************************************************)
\* a list operation has returned
Listed == pc \in {"listed", "relisted"}

\* C13: every node, image, location and size that list_nodes, list_images,
\* list_locations and list_sizes of a driver return refers back to that
\* driver, the sizes copied from the template without a driver included.
C13_DriverBackReference ==
    (Listed /\ listed.call \in {"list_nodes", "list_images", "list_locations", "list_sizes"})
        => \A k \in 1..Len(listed.value) : listed.value[k].driver = driver

\* C13 witness: list_sizes of the second driver returned four derived sizes
C13_Witness ==
    /\ Listed
    /\ listed.call = "list_sizes"
    /\ driver = "driver2"
    /\ Len(listed.value) = 4
    /\ \A k \in 1..4 : listed.value[k].driver = "driver2"

\* C13 witness: list_nodes returned a server and a guest of its driver
C13_WitnessNodes ==
    /\ Listed
    /\ listed.call = "list_nodes"
    /\ \E k, l \in 1..Len(listed.value) :
          /\ listed.value[k].extra.type = "bare_metal"
          /\ listed.value[l].extra.type = "virtual_server"
          /\ listed.value[k].driver = driver
          /\ listed.value[l].driver = driver

\* the entries of the account as pairs of type and id
Entries ==
    { <<"bare_metal", id>> : id \in DOMAIN servers }
        \cup { <<"virtual_server", id>> : id \in DOMAIN guests }

\* the tags of an entry
EntryTags(entry) ==
    IF entry[1] = "bare_metal" THEN servers[entry[2]].tags ELSE guests[entry[2]].tags

\* the fully qualified domain name of an entry
EntryName(entry) ==
    IF entry[1] = "bare_metal" THEN servers[entry[2]].fqdn ELSE guests[entry[2]].fqdn

\* the entry carries the tag
HasTag(entry, tag) == \E k \in 1..Len(EntryTags(entry)) : EntryTags(entry)[k] = tag

\* the cluster names the name tags of an entry give, in the order of the tags
NamesOf(entry) ==
    LET named == SelectSeq(EntryTags(entry),
                           LAMBDA tag : \E n \in {"c", "d"} : tag = "storm.cluster.name:" \o n)
    IN  [k \in 1..Len(named) |-> CHOOSE n \in {"c", "d"} : named[k] = "storm.cluster.name:" \o n]

\* the entries tagged storm.cluster
ClusterEntries == { entry \in Entries : HasTag(entry, "storm.cluster") }

\* the entry is a member of the cluster
MemberOf(entry, c) ==
    \E n \in DOMAIN c.nodes :
        /\ c.nodes[n].id = entry[2]
        /\ c.nodes[n].extra.type = entry[1]
        /\ n = EntryName(entry)

\* C16: ex_list_clusters returns one cluster per cluster name that a name tag
\* of a node tagged storm.cluster gives; every such node, hardware or virtual,
\* is a member of the cluster of its name and of no other, so that no node is
\* lost; the clusters are sorted by name.
C16_ClustersGroupAllNodes ==
    (Listed /\ listed.call = "ex_list_clusters") =>
        LET clusters == listed.value
        IN  /\ { clusters[k].name : k \in 1..Len(clusters) }
                   = { NamesOf(entry)[1] : entry \in { e \in ClusterEntries : NamesOf(e) # <<>> } }
            /\ \A k, l \in 1..Len(clusters) : clusters[k].name = clusters[l].name => k = l
            /\ \A entry \in ClusterEntries :
                   \A k \in 1..Len(clusters) :
                       MemberOf(entry, clusters[k])
                           <=> (NamesOf(entry) # <<>> /\ clusters[k].name = NamesOf(entry)[1])
            /\ \A k, l \in 1..Len(clusters) : k < l => Rank(clusters[k].name) < Rank(clusters[l].name)

\* the nodes tagged storm.cluster have a name tag and pairwise distinct names
NamedApart ==
    /\ \A entry \in ClusterEntries : NamesOf(entry) # <<>>
    /\ \A e1, e2 \in ClusterEntries : EntryName(e1) = EntryName(e2) => e1 = e2

\* C16 for accounts whose cluster nodes are named apart (holds)
C16_NamedApart == NamedApart => C16_ClustersGroupAllNodes

\* C16, the case that fails: two nodes of one name in one cluster, of which
\* the listed cluster has one
C16_NodeLost ==
    /\ Listed
    /\ listed.call = "ex_list_clusters"
    /\ \E e1, e2 \in ClusterEntries :
          /\ e1 # e2
          /\ EntryName(e1) = EntryName(e2)
          /\ NamesOf(e1) = <<"c">>
          /\ NamesOf(e2) = <<"c">>
          /\ \E k \in 1..Len(listed.value) :
                /\ listed.value[k].name = "c"
                /\ ~MemberOf(e1, listed.value[k])
                /\ MemberOf(e2, listed.value[k])

\* the entries of a result: the nodes of list_nodes, the member nodes of the
\* clusters of ex_get_cluster_by_name and ex_list_clusters, as pairs of type and id
ResultEntries(result) ==
    IF result.call = "list_nodes"
    THEN { <<result.value[k].extra.type, result.value[k].id>> : k \in 1..Len(result.value) }
    ELSE UNION { { <<result.value[k].nodes[n].extra.type, result.value[k].nodes[n].id>> :
                      n \in DOMAIN result.value[k].nodes } : k \in 1..Len(result.value) }

\* the nodes of a result, whatever the call
ResultNodes(result) ==
    IF result.call = "list_nodes"
    THEN { result.value[k] : k \in 1..Len(result.value) }
    ELSE UNION { { result.value[k].nodes[n] : n \in DOMAIN result.value[k].nodes } :
                    k \in 1..Len(result.value) }

\* C17: the driver keeps no cache: what list_nodes, ex_get_cluster_by_name and
\* ex_list_clusters return is read from the account as it is at the time of
\* the call, after any creation or destruction: every node returned is an
\* entry the account has now, with its name and tags of now, list_nodes
\* returns every entry, and the cluster calls return nodes of every name that
\* is tagged now; a node seen in an earlier call only is not returned.
C17_ListReflectsProvider ==
    (Listed /\ listed.call \in {"list_nodes", "ex_get_cluster_by_name", "ex_list_clusters"}) =>
        /\ ResultEntries(listed) \subseteq Entries
        /\ \A listedNode \in ResultNodes(listed) :
               LET entry == <<listedNode.extra.type, listedNode.id>>
               IN  /\ listedNode.name = EntryName(entry)
                   /\ listedNode.extra.tags = EntryTags(entry)
        /\ listed.call = "list_nodes" =>
               /\ ResultEntries(listed) = Entries
               /\ Len(listed.value) = Cardinality(Entries)
        /\ listed.call = "ex_list_clusters" =>
               { EntryName(entry) : entry \in ClusterEntries }
                   = { listedNode.name : listedNode \in ResultNodes(listed) }
        /\ listed.call = "ex_get_cluster_by_name" =>
               { EntryName(entry) : entry \in { e \in Entries : HasTag(e, "storm.cluster.name:c") } }
                   = { listedNode.name : listedNode \in ResultNodes(listed) }

\* C17 witness: a second list_nodes call after a guest seen by the first was
\* cancelled; the second result does not have it
C17_Witness ==
    /\ pc = "relisted"
    /\ listed.call = "list_nodes"
    /\ earlier.call = "list_nodes"
    /\ \E entry \in ResultEntries(earlier) :
          /\ entry \notin ResultEntries(listed)
          /\ entry \notin Entries

\* C17 witness: a second ex_list_clusters call after a guest was created in
\* the cluster; the second result has it, the first did not
C17_WitnessCreated ==
    /\ pc = "relisted"
    /\ listed.call = "ex_list_clusters"
    /\ earlier.call = "ex_list_clusters"
    /\ \E entry \in ResultEntries(listed) : entry \notin ResultEntries(earlier)

(***************************************************************************)
(* Properties of the results of create_node and ex_create_cluster.         *)
(***************************************************************************)
\* create_node or ex_create_cluster has returned after its batch creation
BatchReturned ==
    /\ pc = "returned"
    /\ caller \in {"create_node", "ex_create_cluster"}
    /\ logged.text \in {"took", "timed out"}

\* the batch creation ended because the budget reached zero
BatchTimedOut == timeout = 0 /\ \E i \in Submitted : ~Marked(i)

\* C18: create_node and ex_create_cluster raise nothing on a provisioning
\* timeout: when the batch creation yields no nodes they return None;
\* otherwise create_node returns the node of the one submitted instance and
\* ex_create_cluster a cluster whose members are the nodes of the batch.
C18_NoneOrNodes ==
    BatchReturned =>
        /\ ret.kind \in {"None", "node", "cluster"}
        /\ BatchTimedOut => ret = [kind |-> "None", value |-> None]
        /\ nodes = <<>> => ret = [kind |-> "None", value |-> None]
        /\ (nodes # <<>> /\ caller = "create_node") =>
               /\ ret.kind = "node"
               /\ Len(instanceInfos) = 1
               /\ ret.value.id = instanceInfos[1].id
               /\ ret.value.name = Fqdn(kwargs["name"], Domain)
        /\ (nodes # <<>> /\ caller = "ex_create_cluster") =>
               /\ ret.kind = "cluster"
               /\ ret.value.name = kwargs["cluster"]
               /\ { ret.value.nodes[n] : n \in DOMAIN ret.value.nodes }
                      = { nodes[k] : k \in 1..Len(nodes) }
               /\ Cardinality(DOMAIN ret.value.nodes) = Len(nodes)
               /\ \A n \in DOMAIN ret.value.nodes : ret.value.nodes[n].name = n

\* C18 witness: create_node ran out of its budget and returned None
C18_Witness ==
    /\ BatchReturned
    /\ caller = "create_node"
    /\ BatchTimedOut
    /\ rounds = timeout0
    /\ rounds >= 1
    /\ ret = [kind |-> "None", value |-> None]

\* C18 witness: ex_create_cluster returned a cluster of the two nodes of the batch
C18_WitnessCluster ==
    /\ BatchReturned
    /\ caller = "ex_create_cluster"
    /\ Len(nodes) = 2
    /\ ret.kind = "cluster"
    /\ Cardinality(DOMAIN ret.value.nodes) = 2

\* C18 witness: create_node returned the node of its instance
C18_WitnessNode ==
    /\ BatchReturned
    /\ caller = "create_node"
    /\ ret.kind = "node"
    /\ ret.value.id = 1

(***************************************************************************)
(* Properties of ex_create_cluster on an account that has the cluster.     *)
(***************************************************************************)
\* the guests of cluster c that are the node of the requested name
NodesOfName(clusterName, name) ==
    { g \in DOMAIN guests :
        /\ guests[g].hostname = clusterName \o "-" \o name
        /\ \E k \in 1..Len(guests[g].tags) : guests[g].tags[k] = "storm.cluster.name:" \o clusterName }

\* ex_create_cluster runs with all its arguments and is past its check for
\* nodes that already exist
PastExistingCheck ==
    /\ caller = "ex_create_cluster"
    /\ RequiredKeys \subseteq DOMAIN kwargs
    /\ pc # "getClusterByName"

\* C19: when the cluster exists and has a node for one of the requested
\* names, ex_create_cluster returns None and submits no creation request: a
\* repeated call never creates a second instance for a name.
C19_ExistingNodeRefused ==
    (PastExistingCheck /\ \E k \in 1..Len(kwargs["names"]) : kwargs["names"][k] = "a") =>
        /\ pc = "returned"
        /\ ret = [kind |-> "None", value |-> None]
        /\ instanceInfos = <<>>
        /\ Cardinality(NodesOfName("c", "a")) = 1

\* C19, the outcome that the check is there to prevent: never two guests for
\* one name of the cluster
C19_NoSecondInstance == Cardinality(NodesOfName("c", "a")) <= 1

\* C19, what happens: the repeated call returns a cluster, and the account
\* has two guests c-a
C19_SecondInstance ==
    /\ pc = "returned"
    /\ caller = "ex_create_cluster"
    /\ kwargs["names"] = <<"a">>
    /\ ret.kind = "cluster"
    /\ Cardinality(NodesOfName("c", "a")) = 2

(***************************************************************************)
(* Properties of the tagging of created instances.                         *)
(***************************************************************************)
\* the positions of the configurations that came with tags
TaggedPositions == { i \in 1..Len(tags) : tags[i] # NoTags }

\* the provider requests of the running operation before its batch creation:
\* ex_create_cluster looks up the cluster (servers, guests) and the public
\* and private VLANs
RequestsBeforeBatch == IF caller = "ex_create_cluster" THEN 2 + 2 ELSE 0

\* the tags a listing of the guest would report
ReportedTags(id) == virtual_to_node(RecordOf(id, guests[id]), driver).extra.tags

\* C20: ex_create_nodes sets the tags of the i-th configuration on the i-th
\* created instance and on no other, makes no tag call for a configuration
\* without tags, and makes its tag calls after the creation request and before
\* the first status poll; the nodes of ex_create_cluster(cluster=c) carry
\* storm.cluster and storm.cluster.name:c, and get_cluster_name gives c.
C20_TagsOnOwnInstance ==
    /\ pc = "createObjects" => (calls = RequestsBeforeBatch /\ guests = EmptyDict)
    /\ pc = "setTags" =>
           /\ rounds = 0
           /\ seen = NoVisit
           /\ calls = RequestsBeforeBatch + 1 + Cardinality({ i \in TaggedPositions : i < idx })
           /\ \A i \in Submitted :
                  guests[instanceInfos[i].id].tags = IF i < idx THEN tags[i] ELSE NoTags
    /\ (pc = "while" /\ rounds = 0) =>
           calls = RequestsBeforeBatch + 1 + Cardinality(TaggedPositions)
    /\ pc \in {"while", "for", "after", "collect", "return", "returned"} =>
           /\ DOMAIN guests = { instanceInfos[i].id : i \in Submitted }
           /\ \A i \in Submitted : guests[instanceInfos[i].id].tags = tags[i]
    /\ (pc = "returned" /\ ret.kind = "cluster") =>
           \A n \in DOMAIN ret.value.nodes :
               LET reported == ReportedTags(ret.value.nodes[n].id)
               IN  /\ \E k \in 1..Len(reported) : reported[k] = "storm.cluster"
                   /\ \E k \in 1..Len(reported) :
                          reported[k] = "storm.cluster.name:" \o kwargs["cluster"]
                   /\ get_cluster_name(reported) = kwargs["cluster"]

\* C20 witness: a batch whose first configuration has no tags and whose second
\* has one: one tag call, on the second instance, before any poll
C20_Witness ==
    /\ pc = "while"
    /\ rounds = 0
    /\ Len(instanceInfos) = 2
    /\ tags = <<NoTags, <<"web">>>>
    /\ calls = 2
    /\ guests[instanceInfos[1].id].tags = NoTags
    /\ guests[instanceInfos[2].id].tags = <<"web">>

\* C20 witness: ex_create_cluster returned two nodes whose tags name the cluster
C20_WitnessCluster ==
    /\ pc = "returned"
    /\ ret.kind = "cluster"
    /\ Cardinality(DOMAIN ret.value.nodes) = 2
    /\ \A n \in DOMAIN ret.value.nodes :
           get_cluster_name(ReportedTags(ret.value.nodes[n].id)) = "c"

(***************************************************************************)
(* Properties of the VLAN placement of ex_create_cluster.                  *)
(***************************************************************************)
\* ex_create_cluster has made its node configurations
Configured == caller = "ex_create_cluster" /\ pc = "createObjects"

\* the VLANs of the datacenter of the call
DatacenterVlans ==
    { vlans[k] : k \in { j \in 1..Len(vlans) : vlans[j].datacenter = kwargs["location"] } }

\* the VLAN has a subnet outside the private range
HasPublicSubnet(vlan) ==
    \E k \in 1..Len(vlan.subnets) :
        ~StartsWith(vlan.subnets[k].networkIdentifier, <<"1", "0", ".">>)

\* the guest count of a VLAN, 0 when the record has none
CountOf(vlan) == IF vlan.virtualGuestCount = Absent THEN 0 ELSE vlan.virtualGuestCount

\* the option is the id of a VLAN of the candidates with a maximal guest
\* count, or is not set when there is no candidate
PlacedOnLargest(option, candidates) ==
    IF candidates = {} THEN option = NoVlan
    ELSE \E vlan \in candidates :
            /\ option = vlan.id
            /\ \A other \in candidates : CountOf(other) <= CountOf(vlan)

\* C21: the public_vlan (private_vlan) of every node configuration of
\* ex_create_cluster is the id of a public (private) VLAN of the datacenter
\* whose guest count, 0 when absent, is maximal among them, and is not set when
\* the datacenter has none; the configurations of one call carry the same ids.
C21_LargestVlan ==
    Configured =>
        /\ Len(configs) = Len(kwargs["names"])
        /\ \A i \in 1..Len(configs) :
               /\ PlacedOnLargest(configs[i].public_vlan,
                                  { vlan \in DatacenterVlans : HasPublicSubnet(vlan) })
               /\ PlacedOnLargest(configs[i].private_vlan,
                                  { vlan \in DatacenterVlans : ~HasPublicSubnet(vlan) })
        /\ \A i, j \in 1..Len(configs) :
               /\ configs[i].public_vlan = configs[j].public_vlan
               /\ configs[i].private_vlan = configs[j].private_vlan

\* C21 witness: two public VLANs in the datacenter, the first with a guest
\* and the second without a count, no private VLAN: two nodes on the first
C21_Witness ==
    /\ Configured
    /\ Len(configs) = 2
    /\ Len(vlans) = 2
    /\ \A k \in 1..2 : vlans[k].datacenter = "dal05" /\ HasPublicSubnet(vlans[k])
    /\ vlans[1].virtualGuestCount = 1
    /\ vlans[2].virtualGuestCount = Absent
    /\ \A i \in 1..2 : configs[i].public_vlan = 1 /\ configs[i].private_vlan = NoVlan

\* C21 witness: the only VLAN with guests is in another datacenter and is not used
C21_WitnessOtherDatacenter ==
    /\ Configured
    /\ Len(configs) = 1
    /\ Len(vlans) = 2
    /\ vlans[1].datacenter = "sjc01" /\ vlans[1].virtualGuestCount = 1
    /\ vlans[2].datacenter = "dal05" /\ vlans[2].virtualGuestCount = 0
    /\ ~HasPublicSubnet(vlans[1]) /\ ~HasPublicSubnet(vlans[2])
    /\ configs[1].private_vlan = 2
    /\ configs[1].public_vlan = NoVlan

(***************************************************************************)
(* Properties of ex_create_nodes after a timeout.                          *)
(***************************************************************************)
\* ex_create_nodes has returned through its timeout branch
ReturnedOnTimeout == Returned /\ ~AllReady

\* the ids of the nodes list_nodes would return now
ListedIds == LET all == ListNodes(driver) IN { all[k].id : k \in 1..Len(all) }

\* C22: when ex_create_nodes times out, also with a timeout of 0 that polls
\* nothing, the call returns an empty list and every instance the batch request
\* created is still a guest of the account, and list_nodes returns it.
C22_TimeoutLeavesInstances ==
    ReturnedOnTimeout =>
        /\ nodes = <<>>
        /\ \A i \in Submitted :
               /\ instanceInfos[i].id \in DOMAIN guests
               /\ instanceInfos[i].id \in ListedIds

\* C22 witness: a call with timeout 0 has created two instances, polled
\* nothing, and returned; both are guests of the account
C22_Witness ==
    /\ ReturnedOnTimeout
    /\ timeout0 = 0
    /\ rounds = 0
    /\ Len(instanceInfos) = 2
    /\ nodes = <<>>
    /\ \A i \in Submitted : instanceInfos[i].id \in ListedIds

\* C22 witness: the timeout ran out over an instance that was polled and not ready
C22_WitnessPolled ==
    /\ ReturnedOnTimeout
    /\ timeout0 > 0
    /\ timeout = 0
    /\ rounds = timeout0
    /\ \E i \in Submitted : ~Marked(i) /\ instanceInfos[i].id \in ListedIds

(***************************************************************************)
(* Properties of the readiness set of the wait loop.                       *)
(***************************************************************************)
\* the fully qualified domain names of the submitted instances
SubmittedNames == { instanceInfos[i].fullyQualifiedDomainName : i \in Submitted }

\* two submitted instances have one fully qualified domain name
SharedName == Cardinality(SubmittedNames) < Len(instanceInfos)

\* C23: the ready set of the wait loop holds fully qualified domain names of
\* the submitted instances, so it never has more entries than there are distinct
\* names; when two submitted instances share a name the loop is left only with
\* the timeout used up, and the call returns an empty list, even if every
\* instance was ready.
C23_ReadinessByName ==
    /\ readyInstances \subseteq SubmittedNames
    /\ Cardinality(readyInstances) <= Cardinality(SubmittedNames)
    /\ (SharedName /\ pc \in {"after", "collect", "return"}) =>
           /\ timeout = 0
           /\ rounds = timeout0
           /\ pc # "collect"
           /\ Returned => nodes = <<>>

\* C23 witness: two instances of one name, both ready when polled, and the
\* call has returned nothing after as many rounds as the timeout allowed
C23_Witness ==
    /\ Returned
    /\ Len(instanceInfos) = 2
    /\ SharedName
    /\ EveryInstanceWasReady
    /\ \A i \in Submitted : Marked(i)
    /\ timeout0 = MaxTimeout
    /\ rounds = timeout0
    /\ nodes = <<>>

(***************************************************************************)
(* Properties of the polling of the wait loop.                             *)
(***************************************************************************)
\* a step inside the while loop
LoopStep == pc \in {"while", "for"}

\* the step is a visit that polls the instance at position idx, once
PolledOnce == seen'.polled /\ seen'.id = instanceInfos[idx].id /\ calls' = calls + 1

\* the step is a visit that makes no request for the instance at position idx
NotPolled == ~seen'.polled /\ calls' = calls /\ readyInstances' = readyInstances

\* C24: inside the wait loop the ready set only grows; an instance that is
\* marked ready is not polled again, whatever status the provider has for it by
\* then, and stays marked; an instance that has not been ready at any visit of
\* the loop is polled once at its visit of every round.
C24_ReadyGrowsPolledOnce ==
    [][ /\ LoopStep => readyInstances \subseteq readyInstances'
        /\ (VisitStep /\ Marked(idx)) => NotPolled
        /\ (VisitStep /\ instanceInfos[idx].id \notin wasReady) => PolledOnce
      ]_vars

\* C24 for batches whose domain names are pairwise distinct (holds)
C24_DistinctNames ==
    [][ DistinctNames =>
          /\ LoopStep => readyInstances \subseteq readyInstances'
          /\ (VisitStep /\ Marked(idx)) => NotPolled
          /\ (VisitStep /\ instanceInfos[idx].id \notin wasReady) => PolledOnce
      ]_vars

\* C24 read by name (holds): the instances whose name is not in the ready set
\* are the ones polled, once at their visit of every round
C24_ByName ==
    [][ /\ LoopStep => readyInstances \subseteq readyInstances'
        /\ (VisitStep /\ Marked(idx)) => NotPolled
        /\ (VisitStep /\ ~Marked(idx)) => PolledOnce
      ]_vars

\* an instance that was never ready has been passed over without a poll
C24_UnreadySkipped ==
    /\ pc = "for"
    /\ seen # NoVisit
    /\ ~seen.polled
    /\ seen.id \notin wasReady
    /\ \E i \in Submitted : instanceInfos[i].id = seen.id /\ Marked(i)

\* an instance marked ready is passed over although the provider has a new
\* transaction on it
C24_MarkedStaysReady ==
    /\ pc = "for"
    /\ seen # NoVisit
    /\ ~seen.polled
    /\ seen.id \in wasReady
    /\ seen.status.activeTransaction # NoTransaction
    /\ DistinctNames
    /\ \E i \in Submitted : instanceInfos[i].id = seen.id /\ Marked(i)

=============================================================================
